---- MODULE Spec2Model ----
(***************************************************************************)
(* Nouveau GPU Monitor: the architecture resolver (detect_architecture,    *)
(* get_arch_info) and the temperature analyzer (EnhancedLogger) of         *)
(* src/nouveau_gpu_monitor.py, with the bounded history list of            *)
(* src/nouveau_monitor.py.                                                 *)
(*                                                                         *)
(* Conventions.                                                            *)
(*  - A Python str is a sequence of one-character strings, so that         *)
(*    startswith, indexing and int(s, 16) are computed character by        *)
(*    character.  The alphabet of the model has no whitespace, sign,       *)
(*    underscore or "x", the only non-digit characters int(s, 16) accepts. *)
(*  - Temperatures are integers in tenths of a degree Celsius, timestamps  *)
(*    integers in seconds; a rate is the exact fraction num/den.           *)
(*    Floating-point rounding is not modelled.                             *)
(*  - A raised exception is recorded in the variable error and ends the    *)
(*    session (neither caller catches it).                                 *)
(***************************************************************************)
EXTENDS Integers, Sequences, FiniteSets, TLC

VARIABLES
    gpu_info,             \* self.gpu_info: [family, chip_id]
    gpu_arch,             \* self.gpu_arch, "unset" before detection
    arch_info,            \* << >>, or <<p>> for the last result p of get_arch_info
    error,                \* "none", or the exception that ended the session
    resolve_calls,        \* history: number of detect_architecture calls
    resolve_log,          \* history: each call's outcome and its context
    temp_history,         \* EnhancedLogger.temp_history
    process_temp_map,     \* EnhancedLogger.process_temp_map
    anomaly_events,       \* EnhancedLogger.anomaly_events
    inserted,             \* history: every sample passed to log_temp_change
    returned,             \* << >> for None, or <<v>>: what the last call of
                          \* log_temp_change returned
    active_processes,     \* history: the processes dictionary passed to the
                          \* last call of log_temp_change
    monitor_temp_history, \* GPUMonitor.temp_history (nouveau_monitor.py)
    monitor_inserted,     \* history: every reading appended to it
    DAEMON_CONFIG,        \* the global settings dictionary
    gui_temp_history,     \* EnhancedGPUMonitor.temp_history
    current_cooling_mode, \* EnhancedGPUMonitor.current_cooling_mode
    temp_status,          \* text of the temp_status label
    cooling_mode_label,   \* mode shown by cooling_mode_label, "" before the
                          \* first update
    anomaly_table,        \* rows of the anomaly table
    cooling_text,         \* << >>, or <<r>> for the analysis text r
    polls,                \* history: number of update_data calls
    refreshes,            \* history: number of analysis display updates
    sensors_read,         \* history: the outcome of the last `sensors` run
                          \* offered to get_cooling_mode
    temp_read,            \* history: << >> for None, or <<temp>>: the last
                          \* result of get_gpu_temperature in update_data
    daemon_temp_history,  \* GPUMonitorDaemon.temp_history
    trend_call,           \* << >>, or <<c>> for the last call c of
                          \* analyze_temperature_trend: the number of
                          \* samples it read and its result
    daemon_readings,      \* history: number of daemon cycles
    complete_temp_history,
                          \* GPUMonitor.temp_history
                          \* (nouveau_monitor_complete.py)
    complete_temp_status, \* text of its temp_status label
    complete_temp_read,   \* history: the last result of
                          \* get_temperature_from_nouveau_sensors
    complete_readings,    \* history: number of its update_temperature calls
    running,              \* GPUMonitorDaemon.running
    daemon_pc,            \* where the daemon is: "constructed", in the
                          \* "loop" of run, or "returned" from run
    delivered,            \* history: SIGTERM or SIGINT was delivered
    last_user_activity,   \* GPUMonitorDaemon.last_user_activity
    kill_cycle,           \* history: << >>, or <<c>> for the last cycle c:
                          \* what it read and the signals it sent
    process_history,      \* GPUMonitorDaemon.process_history
    video_log,            \* history: the keys the daemon logged, in order
    video_accel_processes,
                          \* GPUMonitor.video_accel_processes
    video_notifications   \* history: the process IDs the window notified
                          \* of, in order

vars == <<gpu_info, gpu_arch, arch_info, error, resolve_calls,
          resolve_log, temp_history, process_temp_map, anomaly_events,
          inserted, returned, active_processes, monitor_temp_history,
          monitor_inserted,
          DAEMON_CONFIG, gui_temp_history, current_cooling_mode, temp_status,
          cooling_mode_label, anomaly_table, cooling_text, polls, refreshes,
          sensors_read, temp_read, daemon_temp_history, trend_call,
          daemon_readings, complete_temp_history, complete_temp_status,
          complete_temp_read, complete_readings, running, daemon_pc,
          delivered, last_user_activity, kill_cycle, process_history,
          video_log, video_accel_processes, video_notifications>>

resolver_vars == <<gpu_info, gpu_arch, arch_info, resolve_calls,
                   resolve_log>>

analyzer_vars == <<temp_history, process_temp_map, anomaly_events, inserted,
                   returned, active_processes>>

monitor_vars == <<monitor_temp_history, monitor_inserted>>

gui_vars == <<gui_temp_history, current_cooling_mode, temp_status,
              cooling_mode_label, anomaly_table, cooling_text, polls,
              refreshes, sensors_read, temp_read>>

run_vars == <<running, daemon_pc, delivered>>

kill_vars == <<last_user_activity, kill_cycle>>

video_vars == <<process_history, video_log>>

daemon_vars == <<daemon_temp_history, trend_call, daemon_readings, run_vars,
                 kill_vars, video_vars>>

window_vars == <<video_accel_processes, video_notifications>>

complete_vars == <<complete_temp_history, complete_temp_status,
                   complete_temp_read, complete_readings, window_vars>>

----------------------------------------------------------------------------
(* Bounds of the model *)

\* samples passed to log_temp_change in one behaviour
MaxSamples == 3

\* readings appended by update_temperature in one behaviour
MaxReadings == 3

\* detect_architecture calls in one behaviour
MaxResolveCalls == 2

\* deque(maxlen=1000) of EnhancedLogger.temp_history, scaled down
temp_history_maxlen == 2

\* deque(maxlen=100) of a process's temp_history, scaled down
process_temp_history_maxlen == 2

\* GPUMonitor.max_history = 60, scaled down
max_history == 2

\* deque(maxlen=120) of EnhancedGPUMonitor.temp_history, scaled down
gui_temp_history_maxlen == 12

\* deque(maxlen=100) of GPUMonitorDaemon.temp_history, scaled down
daemon_temp_history_maxlen == 10

\* cycles of the daemon in one behaviour
MaxDaemonReadings == 10

\* deque(maxlen=60) of GPUMonitor.temp_history, scaled down
complete_temp_history_maxlen == 2

\* update_temperature_analysis_display calls in one behaviour
MaxRefreshes == 1

\* cycles of the daemon in the behaviours that signal processes, log video
\* acceleration or shut the daemon down
MaxCycles == 2

\* the 10 of anomaly_events[-10:], the events the table shows, scaled down
displayed_events == 1

\* update_data calls in one behaviour of the cooling and status displays
MaxPolls == 2

\* update_data calls in one behaviour of the trend display: the statistics
\* and the trend are written for more than 10 readings only
MaxTrendReadings == 11

----------------------------------------------------------------------------
(* Static tables *)

\* GPU_ARCHITECTURES: architecture tag -> profile
GPU_ARCHITECTURES ==
    ("NV40" :> [name |-> "Curie", series |-> "GeForce 6/7", opengl |-> "2.1", year |-> "2004-2006", va_api |-> "None"])
    @@ ("NV50" :> [name |-> "Tesla", series |-> "GeForce 8/9/GT 2xx", opengl |-> "3.3", year |-> "2006-2010", va_api |-> "Very limited"])
    @@ ("NVC0" :> [name |-> "Fermi", series |-> "GeForce 4xx/5xx", opengl |-> "4.3", year |-> "2010-2012", va_api |-> "Partial"])
    @@ ("NVE0" :> [name |-> "Kepler", series |-> "GeForce 6xx/7xx", opengl |-> "4.5", year |-> "2012-2014", va_api |-> "Good"])
    @@ ("GM100" :> [name |-> "Maxwell", series |-> "GeForce 9xx/10xx", opengl |-> "4.6", year |-> "2014-2016", va_api |-> "Very good"])
    @@ ("GP100" :> [name |-> "Pascal", series |-> "GeForce 10xx", opengl |-> "4.6", year |-> "2016-2018", va_api |-> "Very good"])
    @@ ("GV100" :> [name |-> "Volta", series |-> "Titan V", opengl |-> "4.6", year |-> "2017", va_api |-> "Very good"])
    @@ ("TU100" :> [name |-> "Turing", series |-> "GeForce 16xx/RTX 20xx", opengl |-> "4.6", year |-> "2018-2020", va_api |-> "Excellent"])
    @@ ("GA100" :> [name |-> "Ampere", series |-> "RTX 30xx", opengl |-> "4.6", year |-> "2020-2022", va_api |-> "Excellent"])
    @@ ("AD100" :> [name |-> "Ada Lovelace", series |-> "RTX 40xx", opengl |-> "4.6", year |-> "2022+", va_api |-> "Excellent"])
    @@ ("GB100" :> [name |-> "Blackwell", series |-> "RTX 50xx", opengl |-> "4.6", year |-> "2024-2025", va_api |-> "Excellent"])
    @@ ("GB200" :> [name |-> "Blackwell 2.0", series |-> "RTX 60xx", opengl |-> "4.6", year |-> "2025-2026", va_api |-> "Excellent"])
    @@ ("GH100" :> [name |-> "Hopper", series |-> "H100/H200", opengl |-> "4.6", year |-> "2022-2024", va_api |-> "Excellent"])

\* CHIP_DATABASE: chip model -> architecture and marketing name
CHIP_DATABASE ==
    (<<"G", "8", "6">> :> [arch |-> "NV50", name |-> "GeForce 8400 GS/8500 GT"])
    @@ (<<"G", "8", "4">> :> [arch |-> "NV50", name |-> "GeForce 8600 GT/GTS"])
    @@ (<<"G", "9", "2">> :> [arch |-> "NV50", name |-> "GeForce 8800 GT/GTS/GTX"])
    @@ (<<"G", "9", "4">> :> [arch |-> "NV50", name |-> "GeForce 9600 GT/GSO"])
    @@ (<<"G", "9", "6">> :> [arch |-> "NV50", name |-> "GeForce 9400 GT/9500 GT"])
    @@ (<<"G", "9", "8">> :> [arch |-> "NV50", name |-> "GeForce 8400 GS (renew)/9300 GS/9400 GT"])
    @@ (<<"G", "T", "2", "0", "0">> :> [arch |-> "NV50", name |-> "GeForce GTX 260/280/285"])
    @@ (<<"G", "T", "2", "1", "5">> :> [arch |-> "NV50", name |-> "GeForce GT 220/240"])
    @@ (<<"G", "T", "2", "1", "6">> :> [arch |-> "NV50", name |-> "GeForce GT 220"])
    @@ (<<"G", "T", "2", "1", "8">> :> [arch |-> "NV50", name |-> "GeForce GT 210/205"])
    @@ (<<"G", "F", "1", "0", "0">> :> [arch |-> "NVC0", name |-> "GeForce GTX 480/470/465"])
    @@ (<<"G", "F", "1", "0", "4">> :> [arch |-> "NVC0", name |-> "GeForce GTX 460"])
    @@ (<<"G", "F", "1", "0", "6">> :> [arch |-> "NVC0", name |-> "GeForce GTS 450"])
    @@ (<<"G", "F", "1", "0", "8">> :> [arch |-> "NVC0", name |-> "GeForce GT 430/440"])
    @@ (<<"G", "F", "1", "1", "0">> :> [arch |-> "NVC0", name |-> "GeForce GTX 580/570/560 Ti"])
    @@ (<<"G", "F", "1", "1", "4">> :> [arch |-> "NVC0", name |-> "GeForce GTX 560 Ti/550 Ti"])
    @@ (<<"G", "F", "1", "1", "6">> :> [arch |-> "NVC0", name |-> "GeForce GTX 550 Ti/560"])
    @@ (<<"G", "F", "1", "1", "9">> :> [arch |-> "NVC0", name |-> "GeForce GT 520/610"])
    @@ (<<"G", "K", "1", "0", "4">> :> [arch |-> "NVE0", name |-> "GeForce GTX 680/670/660 Ti"])
    @@ (<<"G", "K", "1", "0", "6">> :> [arch |-> "NVE0", name |-> "GeForce GTX 660/650 Ti"])
    @@ (<<"G", "K", "1", "0", "7">> :> [arch |-> "NVE0", name |-> "GeForce GT 640/650"])
    @@ (<<"G", "K", "1", "1", "0">> :> [arch |-> "NVE0", name |-> "GeForce GTX 780/770/TITAN"])
    @@ (<<"G", "K", "2", "0", "8">> :> [arch |-> "NVE0", name |-> "GeForce GT 730/710"])
    @@ (<<"G", "M", "1", "0", "7">> :> [arch |-> "GM100", name |-> "GeForce GTX 750/750 Ti"])
    @@ (<<"G", "M", "1", "0", "8">> :> [arch |-> "GM100", name |-> "GeForce GTX 950/960"])
    @@ (<<"G", "M", "2", "0", "0">> :> [arch |-> "GM100", name |-> "GeForce GTX 980/970/TITAN X"])
    @@ (<<"G", "M", "2", "0", "4">> :> [arch |-> "GM100", name |-> "GeForce GTX 980/970"])
    @@ (<<"G", "M", "2", "0", "6">> :> [arch |-> "GM100", name |-> "GeForce GTX 960/950"])
    @@ (<<"G", "P", "1", "0", "4">> :> [arch |-> "GP100", name |-> "GeForce GTX 1080/1070"])
    @@ (<<"G", "P", "1", "0", "6">> :> [arch |-> "GP100", name |-> "GeForce GTX 1060"])
    @@ (<<"G", "P", "1", "0", "7">> :> [arch |-> "GP100", name |-> "GeForce GTX 1050 Ti/1050"])
    @@ (<<"G", "P", "1", "0", "2">> :> [arch |-> "GP100", name |-> "GeForce GTX 1080 Ti/TITAN Xp"])
    @@ (<<"G", "V", "1", "0", "0">> :> [arch |-> "GV100", name |-> "TITAN V"])
    @@ (<<"T", "U", "1", "0", "2">> :> [arch |-> "TU100", name |-> "GeForce RTX 2080 Ti/TITAN RTX"])
    @@ (<<"T", "U", "1", "0", "4">> :> [arch |-> "TU100", name |-> "GeForce RTX 2080/2070/2060 Super"])
    @@ (<<"T", "U", "1", "0", "6">> :> [arch |-> "TU100", name |-> "GeForce RTX 2060/2060 Super"])
    @@ (<<"T", "U", "1", "1", "6">> :> [arch |-> "TU100", name |-> "GeForce GTX 1660 Ti/1660/1650 Super"])
    @@ (<<"T", "U", "1", "1", "7">> :> [arch |-> "TU100", name |-> "GeForce GTX 1650"])
    @@ (<<"G", "A", "1", "0", "2">> :> [arch |-> "GA100", name |-> "GeForce RTX 3090/3080 Ti/3080"])
    @@ (<<"G", "A", "1", "0", "3">> :> [arch |-> "GA100", name |-> "GeForce RTX 3070 Ti/3070"])
    @@ (<<"G", "A", "1", "0", "4">> :> [arch |-> "GA100", name |-> "GeForce RTX 3060 Ti/3060"])
    @@ (<<"G", "A", "1", "0", "6">> :> [arch |-> "GA100", name |-> "GeForce RTX 3050"])
    @@ (<<"G", "A", "1", "0", "7">> :> [arch |-> "GA100", name |-> "GeForce RTX 3050"])
    @@ (<<"A", "D", "1", "0", "2">> :> [arch |-> "AD100", name |-> "GeForce RTX 4090"])
    @@ (<<"A", "D", "1", "0", "3">> :> [arch |-> "AD100", name |-> "GeForce RTX 4080"])
    @@ (<<"A", "D", "1", "0", "4">> :> [arch |-> "AD100", name |-> "GeForce RTX 4070 Ti/4070"])
    @@ (<<"A", "D", "1", "0", "6">> :> [arch |-> "AD100", name |-> "GeForce RTX 4060 Ti/4060"])
    @@ (<<"A", "D", "1", "0", "7">> :> [arch |-> "AD100", name |-> "GeForce RTX 4050"])
    @@ (<<"G", "B", "1", "0", "2">> :> [arch |-> "GB100", name |-> "GeForce RTX 5090"])
    @@ (<<"G", "B", "1", "0", "3">> :> [arch |-> "GB100", name |-> "GeForce RTX 5080"])
    @@ (<<"G", "B", "1", "0", "4">> :> [arch |-> "GB100", name |-> "GeForce RTX 5070 Ti/5070"])
    @@ (<<"G", "B", "1", "0", "6">> :> [arch |-> "GB100", name |-> "GeForce RTX 5060 Ti/5060"])
    @@ (<<"G", "B", "1", "0", "7">> :> [arch |-> "GB100", name |-> "GeForce RTX 5050"])
    @@ (<<"G", "B", "2", "0", "2">> :> [arch |-> "GB200", name |-> "GeForce RTX 6090"])
    @@ (<<"G", "B", "2", "0", "3">> :> [arch |-> "GB200", name |-> "GeForce RTX 6080"])
    @@ (<<"G", "B", "2", "0", "4">> :> [arch |-> "GB200", name |-> "GeForce RTX 6070 Ti/6070"])
    @@ (<<"G", "B", "2", "0", "6">> :> [arch |-> "GB200", name |-> "GeForce RTX 6060 Ti/6060"])
    @@ (<<"G", "B", "2", "0", "7">> :> [arch |-> "GB200", name |-> "GeForce RTX 6050"])
    @@ (<<"G", "H", "1", "0", "0">> :> [arch |-> "GH100", name |-> "NVIDIA H100"])
    @@ (<<"G", "H", "2", "0", "0">> :> [arch |-> "GH100", name |-> "NVIDIA H200"])

Str_Unknown == <<"U", "n", "k", "n", "o", "w", "n">>

ArchTags ==
    { "NV40", "NV50", "NVC0", "NVE0", "GM100", "GP100", "GV100", "TU100",
      "GA100", "AD100", "GB100", "GB200", "GH100", "Unknown" }

----------------------------------------------------------------------------
(* Architecture resolver *)

\* str.startswith(prefix)
startswith(s, prefix) ==
    /\ Len(s) >= Len(prefix)
    /\ SubSeq(s, 1, Len(prefix)) = prefix

HexDigits ==
    { "0", "1", "2", "3", "4", "5", "6", "7", "8", "9",
      "A", "B", "C", "D", "E", "F", "a", "b", "c", "d", "e", "f" }

HexDigitValue(c) ==
    CASE c = "0" -> 0 [] c = "1" -> 1 [] c = "2" -> 2 [] c = "3" -> 3
      [] c = "4" -> 4 [] c = "5" -> 5 [] c = "6" -> 6 [] c = "7" -> 7
      [] c = "8" -> 8 [] c = "9" -> 9
      [] c \in {"A", "a"} -> 10 [] c \in {"B", "b"} -> 11
      [] c \in {"C", "c"} -> 12 [] c \in {"D", "d"} -> 13
      [] c \in {"E", "e"} -> 14 [] c \in {"F", "f"} -> 15

RECURSIVE HexValue(_)
HexValue(s) ==
    IF s = <<>> THEN 0
    ELSE 16 * HexValue(SubSeq(s, 1, Len(s) - 1)) + HexDigitValue(s[Len(s)])

\* whether int(s, 16) returns (it raises ValueError for the empty string and
\* for a character that is not a hexadecimal digit)
int16_accepts(s) ==
    s # <<>> /\ \A i \in 1..Len(s) : s[i] \in HexDigits

\* int(s, 16), where it returns
int16(s) == HexValue(s)

\* the first tier reading the entry's 'name' instead of its 'arch'
catalog_arch_name(family) ==
    IF family \in DOMAIN CHIP_DATABASE
    THEN CHIP_DATABASE[family].name
    ELSE "none"

\* the first tier: family in CHIP_DATABASE
catalog_arch(family) ==
    IF family \in DOMAIN CHIP_DATABASE
    THEN CHIP_DATABASE[family].arch
    ELSE "none"

\* the GB rule reading the character at index 2
prefix_arch_index_2(family) ==
    IF startswith(family, <<"N", "V", "4">>)
         \/ startswith(family, <<"N", "V", "6">>) THEN "NV40"
    ELSE IF startswith(family, <<"N", "V", "5">>)
         \/ startswith(family, <<"G", "8">>)
         \/ startswith(family, <<"G", "9">>)
         \/ startswith(family, <<"G", "T", "2">>) THEN "NV50"
    ELSE IF startswith(family, <<"N", "V", "C">>)
         \/ startswith(family, <<"G", "F">>) THEN "NVC0"
    ELSE IF startswith(family, <<"N", "V", "E">>)
         \/ startswith(family, <<"G", "K">>) THEN "NVE0"
    ELSE IF startswith(family, <<"G", "M">>) THEN "GM100"
    ELSE IF startswith(family, <<"G", "P">>) THEN "GP100"
    ELSE IF startswith(family, <<"G", "V">>) THEN "GV100"
    ELSE IF startswith(family, <<"T", "U">>) THEN "TU100"
    ELSE IF startswith(family, <<"G", "A">>) THEN "GA100"
    ELSE IF startswith(family, <<"A", "D">>) THEN "AD100"
    ELSE IF startswith(family, <<"G", "B">>)
         THEN (IF Len(family) > 2 /\ family[3] = "2"
               THEN "GB200" ELSE "GB100")
    ELSE IF startswith(family, <<"G", "H">>) THEN "GH100"
    ELSE "none"

\* the second tier: the if/elif chain over family.startswith
prefix_arch(family) ==
    IF startswith(family, <<"N", "V", "4">>)
         \/ startswith(family, <<"N", "V", "6">>) THEN "NV40"
    ELSE IF startswith(family, <<"N", "V", "5">>)
         \/ startswith(family, <<"G", "8">>)
         \/ startswith(family, <<"G", "9">>)
         \/ startswith(family, <<"G", "T", "2">>) THEN "NV50"
    ELSE IF startswith(family, <<"N", "V", "C">>)
         \/ startswith(family, <<"G", "F">>) THEN "NVC0"
    ELSE IF startswith(family, <<"N", "V", "E">>)
         \/ startswith(family, <<"G", "K">>) THEN "NVE0"
    ELSE IF startswith(family, <<"G", "M">>) THEN "GM100"
    ELSE IF startswith(family, <<"G", "P">>) THEN "GP100"
    ELSE IF startswith(family, <<"G", "V">>) THEN "GV100"
    ELSE IF startswith(family, <<"T", "U">>) THEN "TU100"
    ELSE IF startswith(family, <<"G", "A">>) THEN "GA100"
    ELSE IF startswith(family, <<"A", "D">>) THEN "AD100"
    ELSE IF startswith(family, <<"G", "B">>)
         THEN (IF Len(family) > 3 /\ family[4] = "2"
               THEN "GB200" ELSE "GB100")
    ELSE IF startswith(family, <<"G", "H">>) THEN "GH100"
    ELSE "none"

\* the ten G98 device IDs tested before the ranges
G98_IDS ==
    { <<"0", "6", "E", "0">>, <<"0", "6", "E", "1">>, <<"0", "6", "E", "2">>,
      <<"0", "6", "E", "3">>, <<"0", "6", "E", "4">>, <<"0", "6", "E", "5">>,
      <<"0", "6", "E", "6">>, <<"0", "6", "E", "7">>, <<"0", "6", "E", "8">>,
      <<"0", "6", "E", "9">> }

\* the first range without its lower bound 0x0040
range_arch_open_below(chip_num) ==
    IF 64 < chip_num /\ chip_num < 144 THEN "NV40"
    ELSE IF 144 <= chip_num /\ chip_num < 512 THEN "NV50"
    ELSE IF 1536 <= chip_num /\ chip_num < 3584 THEN "NVC0"
    ELSE IF 3584 <= chip_num /\ chip_num < 4480 THEN "NVE0"
    ELSE IF 4480 <= chip_num /\ chip_num < 5120 THEN "GM100"
    ELSE IF 5120 <= chip_num /\ chip_num < 7168 THEN "GP100"
    ELSE IF 7168 <= chip_num /\ chip_num < 7680 THEN "GV100"
    ELSE IF 7680 <= chip_num /\ chip_num < 8704 THEN "TU100"
    ELSE IF 8704 <= chip_num /\ chip_num < 9728 THEN "GA100"
    ELSE IF 9728 <= chip_num /\ chip_num < 10240 THEN "AD100"
    ELSE IF 10240 <= chip_num /\ chip_num < 10752 THEN "GB100"
    ELSE IF 10752 <= chip_num /\ chip_num < 11264 THEN "GB200"
    ELSE IF chip_num >= 11264 THEN "GH100"
    ELSE "Unknown"

\* the general ranges over chip_num (0x0040 = 64, ..., 0x2C00 = 11264)
range_arch(chip_num) ==
    IF 64 <= chip_num /\ chip_num < 144 THEN "NV40"
    ELSE IF 144 <= chip_num /\ chip_num < 512 THEN "NV50"
    ELSE IF 1536 <= chip_num /\ chip_num < 3584 THEN "NVC0"
    ELSE IF 3584 <= chip_num /\ chip_num < 4480 THEN "NVE0"
    ELSE IF 4480 <= chip_num /\ chip_num < 5120 THEN "GM100"
    ELSE IF 5120 <= chip_num /\ chip_num < 7168 THEN "GP100"
    ELSE IF 7168 <= chip_num /\ chip_num < 7680 THEN "GV100"
    ELSE IF 7680 <= chip_num /\ chip_num < 8704 THEN "TU100"
    ELSE IF 8704 <= chip_num /\ chip_num < 9728 THEN "GA100"
    ELSE IF 9728 <= chip_num /\ chip_num < 10240 THEN "AD100"
    ELSE IF 10240 <= chip_num /\ chip_num < 10752 THEN "GB100"
    ELSE IF 10752 <= chip_num /\ chip_num < 11264 THEN "GB200"
    ELSE IF chip_num >= 11264 THEN "GH100"
    ELSE "Unknown"

\* int(chip_id, 16) without the test for the placeholder
chip_num_raises_unguarded(chip_id) ==
    ~int16_accepts(chip_id)

\* whether "int(chip_id, 16) if chip_id != 'Unknown' else 0" raises
chip_num_raises(chip_id) ==
    chip_id # Str_Unknown /\ ~int16_accepts(chip_id)

\* chip_num = int(chip_id, 16) if chip_id != 'Unknown' else 0
chip_num_of(chip_id) ==
    IF chip_id # Str_Unknown THEN int16(chip_id) ELSE 0

\* the third tier with the general ranges tested before the G98 exceptions
chip_id_arch_ranges_first(chip_id) ==
    IF chip_id = <<>> THEN "Unknown"
    ELSE IF chip_num_raises(chip_id) THEN "ValueError"
    ELSE IF range_arch(chip_num_of(chip_id)) # "Unknown"
         THEN range_arch(chip_num_of(chip_id))
    ELSE IF chip_id \in G98_IDS THEN "NV50"
    ELSE "Unknown"

\* the third tier: "if chip_id:" and what follows; "ValueError" when int()
\* raises
chip_id_arch(chip_id) ==
    IF chip_id = <<>> THEN "Unknown"
    ELSE IF chip_num_raises(chip_id) THEN "ValueError"
    ELSE IF chip_id \in G98_IDS THEN "NV50"
    ELSE range_arch(chip_num_of(chip_id))

\* the device-ID tier tried before the family tiers
detect_architecture_id_first(family, chip_id) ==
    IF chip_id_arch(chip_id) # "Unknown" THEN chip_id_arch(chip_id)
    ELSE IF catalog_arch(family) # "none" THEN catalog_arch(family)
    ELSE IF prefix_arch(family) # "none" THEN prefix_arch(family)
    ELSE "Unknown"

\* a resolver whose device-ID tier is skipped once samples were recorded
detect_architecture_reads_history(family, chip_id) ==
    IF catalog_arch(family) # "none" THEN catalog_arch(family)
    ELSE IF prefix_arch(family) # "none" THEN prefix_arch(family)
    ELSE IF temp_history # <<>> THEN "Unknown"
    ELSE chip_id_arch(chip_id)

\* detect_architecture: the tag returned, or "ValueError" when it raises
detect_architecture(family, chip_id) ==
    IF catalog_arch(family) # "none" THEN catalog_arch(family)
    ELSE IF prefix_arch(family) # "none" THEN prefix_arch(family)
    ELSE chip_id_arch(chip_id)

UnknownProfile ==
    [name |-> "Unknown", series |-> "Unknown", opengl |-> "Unknown",
     year |-> "Unknown", va_api |-> "Unknown"]

\* a fallback that returns the first table entry instead of the sentinel
get_arch_info_first_entry(arch) ==
    IF arch \in DOMAIN GPU_ARCHITECTURES
    THEN GPU_ARCHITECTURES[arch]
    ELSE GPU_ARCHITECTURES["NV40"]

\* get_arch_info, for self.gpu_arch = arch
get_arch_info(arch) ==
    IF arch \in DOMAIN GPU_ARCHITECTURES
    THEN GPU_ARCHITECTURES[arch]
    ELSE UnknownProfile

----------------------------------------------------------------------------
(* Temperature analyzer *)

\* self.anomaly_threshold = 5.0 degrees per second, in tenths of a degree
anomaly_threshold == 50

Abs(x) == IF x < 0 THEN -x ELSE x

\* A temperature is a Python float: a finite value in tenths of a degree, or
\* one of the three non-finite floats, which are written as integers outside
\* the range of every finite temperature and difference of the model.
PosInf == 1000000

NegInf == -1000000

NaN == 2000000

NonFinite == {PosInf, NegInf, NaN}

\* A timestamp is a datetime, written as its number of seconds, so that
\* (timestamp - prev_time).total_seconds() is the difference of the two
\* numbers.

\* the float subtraction a - b
float_sub(a, b) ==
    IF a = NaN \/ b = NaN THEN NaN
    ELSE IF a = PosInf THEN (IF b = PosInf THEN NaN ELSE PosInf)
    ELSE IF a = NegInf THEN (IF b = NegInf THEN NaN ELSE NegInf)
    ELSE IF b = PosInf THEN NegInf
    ELSE IF b = NegInf THEN PosInf
    ELSE a - b

\* a full deque that refuses the new entry
deque_append_drop_newest(d, x, maxlen) ==
    IF Len(d) >= maxlen THEN d ELSE Append(d, x)

\* appendleft instead of append
deque_append_left(d, x, maxlen) ==
    IF maxlen = 0 THEN d
    ELSE IF Len(d) >= maxlen THEN <<x>> \o SubSeq(d, 1, Len(d) - 1)
    ELSE <<x>> \o d

\* deque(maxlen=maxlen).append(x): a full deque drops its oldest entry
deque_append(d, x, maxlen) ==
    IF maxlen = 0 THEN d
    ELSE IF Len(d) >= maxlen THEN Append(Tail(d), x)
    ELSE Append(d, x)

\* ">=" instead of ">"
rate_exceeds_inclusive(temp_diff, time_diff) ==
    IF temp_diff = NaN THEN FALSE
    ELSE IF temp_diff \in {PosInf, NegInf} THEN TRUE
    ELSE Abs(temp_diff) >= anomaly_threshold * Abs(time_diff)

\* abs(temp_diff / time_diff) > self.anomaly_threshold, for time_diff # 0:
\* every comparison with nan is False, and abs(+-inf / time_diff) is inf
rate_exceeds(temp_diff, time_diff) ==
    IF temp_diff = NaN THEN FALSE
    ELSE IF temp_diff \in {PosInf, NegInf} THEN TRUE
    ELSE Abs(temp_diff) > anomaly_threshold * Abs(time_diff)

\* the check without "time_diff > 0"
anomaly_check_unguarded(history) ==
    IF Len(history) >= 2
    THEN LET prev      == history[Len(history) - 1]
             cur       == history[Len(history)]
             time_diff == cur[1] - prev[1]
             temp_diff == float_sub(cur[2], prev[2])
         IN  IF time_diff = 0 THEN "ZeroDivisionError"
             ELSE IF rate_exceeds(temp_diff, time_diff)
             THEN "anomaly" ELSE "none"
    ELSE "none"

\* the check on the history after the append: "none" when no anomaly is
\* logged, "anomaly" when _log_anomaly is called, "ZeroDivisionError" when
\* the division raises
anomaly_check(history) ==
    IF Len(history) >= 2
    THEN LET prev      == history[Len(history) - 1]
             cur       == history[Len(history)]
             time_diff == cur[1] - prev[1]
             temp_diff == float_sub(cur[2], prev[2])
         IN  IF time_diff > 0
             THEN (IF rate_exceeds(temp_diff, time_diff)
                   THEN "anomaly" ELSE "none")
             ELSE "none"
    ELSE "none"

\* time_diff / temp_diff instead of temp_diff / time_diff
last_rate_inverse(history) ==
    LET prev == history[Len(history) - 1]
        cur  == history[Len(history)]
    IN  [num |-> cur[1] - prev[1], den |-> float_sub(cur[2], prev[2])]

\* temp_diff / time_diff of the last two entries, as an exact fraction; a
\* non-finite quotient is written over 1
last_rate(history) ==
    LET prev      == history[Len(history) - 1]
        cur       == history[Len(history)]
        temp_diff == float_sub(cur[2], prev[2])
    IN  [num |-> temp_diff,
         den |-> IF temp_diff \in NonFinite THEN 1 ELSE cur[1] - prev[1]]

\* _log_anomaly: the event appended to anomaly_events
anomaly_event(timestamp, rate, processes) ==
    [timestamp |-> timestamp,
     rate      |-> rate,
     processes |-> [pid \in DOMAIN processes |-> processes[pid].name]]

\* the loop creating a new link on every sample
record_processes_restart(map, timestamp, temp, processes) ==
    [pid \in (DOMAIN map) \cup (DOMAIN processes) |->
        IF pid \in DOMAIN processes
        THEN [name          |-> processes[pid].name,
              start_time    |-> timestamp,
              temp_at_start |-> temp,
              temp_history  |->
                 deque_append(IF pid \in DOMAIN map
                              THEN map[pid].temp_history ELSE <<>>,
                              <<timestamp, temp>>,
                              process_temp_history_maxlen)]
        ELSE map[pid]]

\* the loop appending the sample to the ring of every tracked process
record_processes_all_tracked(map, timestamp, temp, processes) ==
    [pid \in (DOMAIN map) \cup (DOMAIN processes) |->
        LET link == IF pid \in DOMAIN map
                    THEN map[pid]
                    ELSE [name          |-> processes[pid].name,
                          start_time    |-> timestamp,
                          temp_at_start |-> temp,
                          temp_history  |-> <<>>]
        IN  [link EXCEPT !.temp_history =
                deque_append(@, <<timestamp, temp>>,
                             process_temp_history_maxlen)]]

\* the "for pid, proc_info in processes.items()" loop
record_processes(map, timestamp, temp, processes) ==
    [pid \in (DOMAIN map) \cup (DOMAIN processes) |->
        IF pid \in DOMAIN processes
        THEN LET link == IF pid \in DOMAIN map
                         THEN map[pid]
                         ELSE [name          |-> processes[pid].name,
                               start_time    |-> timestamp,
                               temp_at_start |-> temp,
                               temp_history  |-> <<>>]
             IN  [link EXCEPT !.temp_history =
                     deque_append(@, <<timestamp, temp>>,
                                  process_temp_history_maxlen)]
        ELSE map[pid]]

\* EnhancedLogger.log_temp_change(timestamp, temp, processes)
log_temp_change(timestamp, temp, processes) ==
    /\ error = "none"
    /\ Len(inserted) < MaxSamples
    /\ LET history == deque_append(temp_history, <<timestamp, temp>>,
                                   temp_history_maxlen)
           check   == anomaly_check(history)
       IN  /\ temp_history' = history
           /\ inserted' = Append(inserted, <<timestamp, temp>>)
           /\ returned' = <<>>
           /\ active_processes' = processes
           /\ IF check = "ZeroDivisionError"
              THEN /\ error' = "ZeroDivisionError"
                   /\ UNCHANGED <<anomaly_events, process_temp_map>>
              ELSE /\ error' = error
                   /\ anomaly_events' =
                        IF check = "anomaly"
                        THEN Append(anomaly_events,
                                    anomaly_event(timestamp,
                                                  last_rate(history),
                                                  processes))
                        ELSE anomaly_events
                   /\ process_temp_map' =
                        record_processes(process_temp_map, timestamp, temp,
                                         processes)
    /\ UNCHANGED <<resolver_vars, monitor_vars, gui_vars, DAEMON_CONFIG,
                   daemon_vars, complete_vars>>

\* GPUMonitor.update_temperature of nouveau_monitor.py: the history part
list_append_bounded(history, x, limit) ==
    LET appended == Append(history, x)
    IN  IF Len(appended) > limit THEN Tail(appended) ELSE appended

update_temperature(temp) ==
    /\ error = "none"
    /\ Len(monitor_inserted) < MaxReadings
    /\ monitor_temp_history' =
          list_append_bounded(monitor_temp_history, temp, max_history)
    /\ monitor_inserted' = Append(monitor_inserted, temp)
    /\ UNCHANGED <<resolver_vars, analyzer_vars, gui_vars, error,
                   DAEMON_CONFIG, daemon_vars, complete_vars>>

----------------------------------------------------------------------------
(* The monitor window of nouveau_gpu_monitor.py *)

\* the status text update_data chooses for a reading; the thresholds are in
\* degrees, the reading in tenths of a degree
temp_status_text(temp, config) ==
    IF temp >= 10 * config.critical_threshold THEN "Status: CRITICAL"
    ELSE IF temp >= 10 * config.temp_threshold THEN "Status: WARNING"
    ELSE "Status: OK"

\* the temperature fallback with ">=" instead of ">"
get_cooling_mode_inclusive(mode, sensors, history) ==
    IF mode = "passive" THEN "passive"
    ELSE IF mode = "active" THEN "active"
    ELSE IF ~sensors.ok THEN "passive"
    ELSE IF sensors.fan # <<>>
         THEN (IF sensors.fan[1] > 0 THEN "active" ELSE "passive")
    ELSE IF Len(history) > 0
         THEN (IF history[Len(history)] >= 700 THEN "active" ELSE "passive")
    ELSE "passive"

\* get_cooling_mode, for self.current_cooling_mode = mode, the outcome of
\* the `sensors` run (ok is FALSE when it raises; fan is << >> when no fan
\* line matches, else <<rpm>>) and self.temp_history = history
get_cooling_mode(mode, sensors, history) ==
    IF mode = "passive" THEN "passive"
    ELSE IF mode = "active" THEN "active"
    ELSE IF ~sensors.ok THEN "passive"
    ELSE IF sensors.fan # <<>>
         THEN (IF sensors.fan[1] > 0 THEN "active" ELSE "passive")
    ELSE IF Len(history) > 0
         THEN (IF history[Len(history)] > 700 THEN "active" ELSE "passive")
    ELSE "passive"

\* update_data, for the result of get_gpu_temperature (<< >> for None, else
\* <<temp>>): the temperature history, the status label and the cooling mode
\* label.  The VRAM, CPU, memory and process histories the handler also
\* appends to are no state of this model.
update_data(reading, sensors) ==
    /\ error = "none"
    /\ polls' = polls + 1
    /\ sensors_read' = sensors
    /\ temp_read' = reading
    /\ LET history == IF reading = <<>> THEN gui_temp_history
                      ELSE deque_append(gui_temp_history, reading[1],
                                        gui_temp_history_maxlen)
       IN  /\ gui_temp_history' = history
           /\ temp_status' =
                 IF reading = <<>> THEN temp_status
                 ELSE temp_status_text(reading[1], DAEMON_CONFIG)
           /\ cooling_mode_label' =
                 get_cooling_mode(current_cooling_mode, sensors, history)
    /\ UNCHANGED <<resolver_vars, analyzer_vars, monitor_vars, error,
                   DAEMON_CONFIG, current_cooling_mode, anomaly_table,
                   cooling_text, refreshes, daemon_vars, complete_vars>>

\* the cause chain with ">=" instead of ">" in its first test
anomaly_cause_inclusive(rate) ==
    IF rate.num >= 100 * rate.den THEN "Heavy load / Thermal throttling"
    ELSE IF rate.num > 50 * rate.den THEN "Process start / High activity"
    ELSE "Normal fluctuation"

\* the "possible cause" of an anomaly table row, for event['rate'] = rate
\* (the denominator of a recorded rate is positive)
anomaly_cause(rate) ==
    IF rate.num > 100 * rate.den THEN "Heavy load / Thermal throttling"
    ELSE IF rate.num > 50 * rate.den THEN "Process start / High activity"
    ELSE "Normal fluctuation"

\* event['timestamp'].strftime('%H:%M:%S'): the second of the day
time_cell(timestamp) == timestamp % 86400

\* f"{event['rate']:.2f}": the rate in hundredths of a degree per second,
\* rounded to the nearest; inf and -inf are written as they are
rate_cell(rate) ==
    IF rate.num \in NonFinite THEN rate.num
    ELSE (20 * rate.num + rate.den) \div (2 * rate.den)

\* ", ".join(list(event['processes'].values())[:3]): at most three names,
\* here in the order of the process IDs
RECURSIVE names_in_order(_, _)
names_in_order(processes, pids) ==
    IF pids = {} THEN <<>>
    ELSE LET pid == CHOOSE p \in pids : \A q \in pids : p <= q
         IN  <<processes[pid]>> \o names_in_order(processes, pids \ {pid})

processes_cell(processes) ==
    LET names == names_in_order(processes, DOMAIN processes)
    IN  IF Len(names) <= 3 THEN names ELSE SubSeq(names, 1, 3)

\* the rows the "for event in ..." loop writes: one per event
anomaly_rows(events) ==
    [i \in 1..Len(events) |->
        [time      |-> time_cell(events[i].timestamp),
         rate      |-> rate_cell(events[i].rate),
         processes |-> processes_cell(events[i].processes),
         cause     |-> anomaly_cause(events[i].rate)]]

\* the last n entries of a sequence: s[-n:]
Last(s, n) ==
    IF Len(s) <= n THEN s ELSE SubSeq(s, Len(s) - n + 1, Len(s))

\* all(recent[i] <= recent[i+1] for i in range(4)), for a list of 5
non_decreasing(recent) ==
    \A i \in 1..4 : recent[i] <= recent[i + 1]

\* all(recent[i] >= recent[i+1] for i in range(4)), for a list of 5
non_increasing(recent) ==
    \A i \in 1..4 : recent[i] >= recent[i + 1]

\* the trend line of the analysis text, "" when none is written: the test
\* of the last 5 readings is nested in "if len(self.temp_history) > 10"
trend_line(history) ==
    IF Len(history) > 10
    THEN (IF Len(history) >= 5
          THEN LET recent == Last(history, 5)
               IN  IF non_decreasing(recent) THEN "Temperature trending UP"
                   ELSE IF non_increasing(recent)
                        THEN "Temperature trending DOWN"
                   ELSE "Temperature stable"
          ELSE "")
    ELSE ""

RECURSIVE SeqSum(_)
SeqSum(s) == IF s = <<>> THEN 0 ELSE Head(s) + SeqSum(Tail(s))

SeqMax(s) == CHOOSE x \in {s[i] : i \in 1..Len(s)} :
                \A i \in 1..Len(s) : s[i] <= x

SeqMin(s) == CHOOSE x \in {s[i] : i \in 1..Len(s)} :
                \A i \in 1..Len(s) : s[i] >= x

\* the statistics block of the analysis text, << >> when none is written;
\* the average is kept as sum and count
statistics(history) ==
    IF Len(history) > 10
    THEN <<[readings |-> Len(history), sum |-> SeqSum(history),
            maximum  |-> SeqMax(history), minimum |-> SeqMin(history)]>>
    ELSE <<>>

\* update_temperature_analysis_display: the anomaly table and the analysis
\* text (the chart it redraws afterwards is no state of this model)
update_temperature_analysis_display(sensors) ==
    /\ error = "none"
    /\ refreshes < MaxRefreshes
    /\ refreshes' = refreshes + 1
    /\ LET events == Last(anomaly_events, displayed_events)
       IN  /\ anomaly_table' = anomaly_rows(events)
           /\ sensors_read' = sensors
           /\ cooling_text' =
                <<[mode        |-> get_cooling_mode(
                                       current_cooling_mode, sensors,
                                       gui_temp_history),
                   temperature |-> Last(gui_temp_history, 1),
                   temp_threshold     |-> DAEMON_CONFIG.temp_threshold,
                   critical_threshold |->
                       DAEMON_CONFIG.critical_threshold,
                   statistics  |-> statistics(gui_temp_history),
                   trend       |-> trend_line(gui_temp_history)]>>
    /\ UNCHANGED <<resolver_vars, analyzer_vars, monitor_vars, error,
                   DAEMON_CONFIG, gui_temp_history, current_cooling_mode,
                   temp_status, cooling_mode_label, polls, temp_read,
                   daemon_vars, complete_vars>>

----------------------------------------------------------------------------
(* The daemon and the monitor window of nouveau_monitor_complete.py *)

\* sum(a) / len(a) > sum(b) / len(b) + delta, for non-empty a and b
mean_exceeds(a, b, delta) ==
    SeqSum(a) * Len(b) > (SeqSum(b) + delta * Len(b)) * Len(a)

\* the trend computed for every history, with no test of its length
analyze_temperature_trend_unguarded(history) ==
    LET recent == Last(history, 5)
        older  == IF Len(history) >= 10
                  THEN SubSeq(history, Len(history) - 9, Len(history) - 5)
                  ELSE SubSeq(recent, 1, Len(recent) \div 2)
    IN  IF recent = <<>> \/ older = <<>> THEN "ZeroDivisionError"
        ELSE IF mean_exceeds(recent, older, 50) THEN "rising"
        ELSE IF mean_exceeds(older, recent, 50) THEN "falling"
        ELSE "stable"

\* GPUMonitorDaemon.analyze_temperature_trend, for self.temp_history =
\* history: the mean of the last 5 readings against the mean of the 5 before
\* them, or of the first 2 of the last 5 when there are fewer than 10
analyze_temperature_trend(history) ==
    IF Len(history) < 5 THEN "stable"
    ELSE LET recent == Last(history, 5)
             older  == IF Len(history) >= 10
                       THEN SubSeq(history, Len(history) - 9,
                                   Len(history) - 5)
                       ELSE SubSeq(recent, 1, Len(recent) \div 2)
         IN  IF mean_exceeds(recent, older, 50) THEN "rising"
             ELSE IF mean_exceeds(older, recent, 50) THEN "falling"
             ELSE "stable"

\* GPUMonitorDaemon.check_user_activity at the time `now`, for what
\* xprintidle and the input devices answer: probe.xprintidle is << >> when
\* running it raises, or <<[returncode, idle]>> with the idle time in
\* milliseconds; probe.devices holds the modification times of the input
\* devices that exist.  The result is the answer and the new value of
\* self.last_user_activity.
check_user_activity(probe, last, now, config) ==
    IF probe.xprintidle = <<>>
    THEN [user_active |-> FALSE, last |-> last]
    ELSE IF probe.xprintidle[1].returncode = 0
    THEN IF probe.xprintidle[1].idle < 1000 * config.user_activity_timeout
         THEN [user_active |-> TRUE, last |-> now]
         ELSE [user_active |-> FALSE, last |-> last]
    ELSE IF \E i \in 1..Len(probe.devices) : probe.devices[i] > last
    THEN [user_active |-> TRUE, last |-> now]
    ELSE [user_active |-> FALSE, last |-> last]

\* the list of processes at or above 50% CPU
dangerous_processes_inclusive(processes) ==
    SelectSeq(processes,
              LAMBDA proc : proc.cpu # <<>> /\ proc.cpu[1] >= 500)

\* the dangerous_processes list of handle_high_temperature before it is
\* sorted: the processes for which ps printed a CPU share above 50%, the
\* share in tenths of a percent and << >> when ps printed none
dangerous_processes(processes) ==
    SelectSeq(processes,
              LAMBDA proc : proc.cpu # <<>> /\ proc.cpu[1] > 500)

RECURSIVE insert_by_cpu(_, _)
\* `item` placed behind the entries whose CPU share is not below its own
insert_by_cpu(sorted, item) ==
    IF sorted = <<>> THEN <<item>>
    ELSE IF item.cpu[1] > Head(sorted).cpu[1] THEN <<item>> \o sorted
    ELSE <<Head(sorted)>> \o insert_by_cpu(Tail(sorted), item)

RECURSIVE sort_by_cpu(_)
\* list.sort(key=lambda x: x[1], reverse=True): descending and stable
sort_by_cpu(list) ==
    IF list = <<>> THEN <<>>
    ELSE insert_by_cpu(sort_by_cpu(SubSeq(list, 1, Len(list) - 1)),
                       list[Len(list)])

\* dangerous_processes[:3]
top_three(list) ==
    IF Len(list) <= 3 THEN list ELSE SubSeq(list, 1, 3)

RECURSIVE kill_top(_, _, _, _, _, _, _)
\* the "for proc, cpu in dangerous_processes[:3]" loop from `entry` on: the
\* signals it sends and the last_user_activity it leaves.  outcomes[entry]
\* is what happens to the process: "gone" when os.kill raises for SIGTERM,
\* "exits" when psutil.pid_exists is false two seconds after it, "survives"
\* when it is true.
kill_top(top, entry, probe, outcomes, last, now, config) ==
    IF entry > Len(top)
    THEN [signals |-> <<>>, last |-> last]
    ELSE LET check == check_user_activity(probe, last, now, config)
             SIGTERM == [pid         |-> top[entry].pid,
                         signal      |-> "SIGTERM",
                         entry       |-> entry,
                         user_active |-> check.user_active]
             SIGKILL == [SIGTERM EXCEPT !.signal = "SIGKILL"]
             sent  == IF config.auto_kill \/ ~check.user_active
                      THEN IF outcomes[entry] = "gone" THEN <<>>
                           ELSE IF outcomes[entry] = "survives"
                           THEN <<SIGTERM, SIGKILL>>
                           ELSE <<SIGTERM>>
                      ELSE <<>>
             rest  == kill_top(top, entry + 1, probe, outcomes, check.last,
                               now, config)
         IN  [signals |-> sent \o rest.signals, last |-> rest.last]

\* the branch "temp >= critical" of handle_high_temperature
kill_dangerous(processes, probe, outcomes, last, now, config) ==
    kill_top(top_three(sort_by_cpu(dangerous_processes(processes))), 1,
             probe, outcomes, last, now, config)

\* the key of process_history: f"{pid}_{accel_type}"
video_key(proc) ==
    <<proc.pid, IF proc.libva THEN "VA-API" ELSE "VDPAU">>

\* the test that takes every process using acceleration for a new one
is_new_always(history, proc) ==
    proc.libva \/ proc.libvdpau

\* "'libva' in result.stdout or 'libvdpau' in result.stdout" and "key not in
\* self.process_history"
is_new(history, proc) ==
    /\ proc.libva \/ proc.libvdpau
    /\ video_key(proc) \notin DOMAIN history

RECURSIVE check_video_acceleration(_, _, _)
\* GPUMonitorDaemon.check_video_acceleration at the time `now`, for
\* self.process_history = history and the processes of psutil.process_iter
\* whose command line names a player, each with the libraries lsof lists
\* for it: the new process_history and the keys logged and notified
check_video_acceleration(history, scan, now) ==
    IF scan = <<>>
    THEN [history |-> history, log |-> <<>>]
    ELSE LET proc == Head(scan)
             new  == is_new(history, proc)
             rest == check_video_acceleration(
                        IF new
                        THEN (video_key(proc) :> now) @@ history
                        ELSE history,
                        Tail(scan), now)
         IN  [history |-> rest.history,
              log     |-> (IF new THEN <<video_key(proc)>> ELSE <<>>)
                             \o rest.log]

\* run() up to its loop: self.running = True
run_start ==
    /\ error = "none"
    /\ daemon_pc = "constructed"
    /\ running' = TRUE
    /\ daemon_pc' = "loop"
    /\ UNCHANGED <<resolver_vars, analyzer_vars, monitor_vars, gui_vars,
                   complete_vars, error, DAEMON_CONFIG, daemon_temp_history,
                   trend_call, daemon_readings, delivered, kill_vars,
                   video_vars>>

\* signal_handler, installed by __init__ for SIGTERM and SIGINT
signal_handler ==
    /\ error = "none"
    /\ daemon_pc # "returned"
    /\ running' = FALSE
    /\ delivered' = TRUE
    /\ UNCHANGED <<resolver_vars, analyzer_vars, monitor_vars, gui_vars,
                   complete_vars, error, DAEMON_CONFIG, daemon_temp_history,
                   trend_call, daemon_readings, daemon_pc, kill_vars,
                   video_vars>>

\* one cycle of the "while self.running" loop of GPUMonitorDaemon.run, the
\* cycle number standing for the time: the result of get_temperature is
\* appended; at or above the warning threshold handle_high_temperature
\* signals the dangerous processes when the reading is at or above the
\* critical threshold as well, and asks for the trend otherwise; then the
\* processes using video acceleration are logged.
run_cycle(reading, processes, probe, outcomes, scan) ==
    /\ error = "none"
    /\ daemon_pc = "loop"
    /\ running
    /\ daemon_readings' = daemon_readings + 1
    /\ IF reading = <<>>
       THEN UNCHANGED <<daemon_temp_history, trend_call>>
       ELSE LET temp    == reading[1]
                history == deque_append(daemon_temp_history, temp,
                                        daemon_temp_history_maxlen)
            IN  /\ daemon_temp_history' = history
                /\ trend_call' =
                      IF /\ temp >= 10 * DAEMON_CONFIG.temp_threshold
                         /\ temp < 10 * DAEMON_CONFIG.critical_threshold
                      THEN <<[samples |-> Len(history),
                              result  |-> analyze_temperature_trend(history)]>>
                      ELSE trend_call
    /\ LET now    == daemon_readings + 1
           killed == IF /\ reading # <<>>
                        /\ reading[1] >= 10 * DAEMON_CONFIG.temp_threshold
                        /\ reading[1] >= 10 * DAEMON_CONFIG.critical_threshold
                     THEN kill_dangerous(processes, probe, outcomes,
                                         last_user_activity, now,
                                         DAEMON_CONFIG)
                     ELSE [signals |-> <<>>, last |-> last_user_activity]
           video  == IF DAEMON_CONFIG.notify_video_accel
                     THEN check_video_acceleration(process_history, scan,
                                                   now)
                     ELSE [history |-> process_history, log |-> <<>>]
       IN  /\ last_user_activity' = killed.last
           /\ kill_cycle' = <<[reading   |-> reading,
                               processes |-> processes,
                               probe     |-> probe,
                               outcomes  |-> outcomes,
                               signals   |-> killed.signals]>>
           /\ process_history' = video.history
           /\ video_log' = video_log \o video.log
    /\ UNCHANGED <<resolver_vars, analyzer_vars, monitor_vars, gui_vars,
                   complete_vars, error, DAEMON_CONFIG, run_vars>>

\* run() after its loop
run_return ==
    /\ error = "none"
    /\ daemon_pc = "loop"
    /\ ~running
    /\ daemon_pc' = "returned"
    /\ UNCHANGED <<resolver_vars, analyzer_vars, monitor_vars, gui_vars,
                   complete_vars, error, DAEMON_CONFIG, daemon_temp_history,
                   trend_call, daemon_readings, running, delivered,
                   kill_vars, video_vars>>

\* the dictionary GPUMonitor.check_video_acceleration returns for the scan:
\* the processes that map a video library, each with its acceleration type
video_processes(scan) ==
    [pid \in {scan[i].pid : i \in {j \in 1..Len(scan) :
                                     scan[j].libva \/ scan[j].libvdpau}} |->
        LET proc == CHOOSE p \in {scan[i] : i \in 1..Len(scan)} : p.pid = pid
        IN  IF proc.libva THEN "VA-API" ELSE "VDPAU"]

RECURSIVE notify_rows(_, _, _, _)
\* the "for i, proc in enumerate(processes)" loop of update_processes, for
\* the process IDs of the rows: the new video_accel_processes and the
\* processes notified of
notify_rows(rows, video, known, notify) ==
    IF rows = <<>>
    THEN [known |-> known, notified |-> <<>>]
    ELSE LET pid  == Head(rows)
             new  == pid \in DOMAIN video /\ pid \notin known
             rest == notify_rows(Tail(rows), video,
                        IF new THEN known \cup {pid} ELSE known, notify)
         IN  [known    |-> rest.known,
              notified |-> (IF new /\ notify THEN <<pid>> ELSE <<>>)
                              \o rest.notified]

\* GPUMonitor.update_processes, for the process IDs lsof lists for the
\* devices and the scan of check_video_acceleration
update_processes(rows, scan) ==
    /\ error = "none"
    /\ LET result == notify_rows(rows, video_processes(scan),
                                 video_accel_processes,
                                 DAEMON_CONFIG.notify_video_accel)
       IN  /\ video_accel_processes' = result.known
           /\ video_notifications' = video_notifications \o result.notified
    /\ UNCHANGED <<resolver_vars, analyzer_vars, monitor_vars, gui_vars,
                   daemon_vars, complete_temp_history, complete_temp_status,
                   complete_temp_read, complete_readings, error,
                   DAEMON_CONFIG>>

\* the status text GPUMonitor.update_temperature chooses for a reading, in
\* plain letters
complete_temp_status_text(temp) ==
    IF temp < 700 THEN "Status: Temperatura OK"
    ELSE IF temp < 850 THEN "Status: Temperatura podwyzszona"
    ELSE "Status: WYSOKA TEMPERATURA!"

\* GPUMonitor.update_temperature of nouveau_monitor_complete.py, for the
\* result of get_temperature_from_nouveau_sensors
complete_update_temperature(reading) ==
    /\ error = "none"
    /\ complete_readings' = complete_readings + 1
    /\ complete_temp_read' = reading
    /\ IF reading = <<>>
       THEN UNCHANGED <<complete_temp_history, complete_temp_status>>
       ELSE /\ complete_temp_status' = complete_temp_status_text(reading[1])
            /\ complete_temp_history' =
                  deque_append(complete_temp_history, reading[1],
                               complete_temp_history_maxlen)
    /\ UNCHANGED <<resolver_vars, analyzer_vars, monitor_vars, gui_vars,
                   daemon_vars, window_vars, error, DAEMON_CONFIG>>

----------------------------------------------------------------------------
(* Resolver and settings operations *)

\* self.gpu_arch = self.detect_architecture()
DetectArchitecture ==
    /\ error = "none"
    /\ resolve_calls < MaxResolveCalls
    /\ LET outcome == detect_architecture(gpu_info.family, gpu_info.chip_id)
       IN  /\ resolve_log' = resolve_log \cup
                  { [outcome |-> outcome,
                     samples |-> Len(inserted),
                     config  |-> DAEMON_CONFIG] }
           /\ IF outcome = "ValueError"
              THEN error' = "ValueError" /\ gpu_arch' = gpu_arch
              ELSE error' = error /\ gpu_arch' = outcome
    /\ resolve_calls' = resolve_calls + 1
    /\ UNCHANGED <<gpu_info, arch_info, analyzer_vars, monitor_vars, gui_vars,
                   DAEMON_CONFIG, daemon_vars, complete_vars>>

\* arch_info = self.get_arch_info()
GetArchInfo ==
    /\ error = "none"
    /\ gpu_arch # "unset"
    /\ arch_info' = <<get_arch_info(gpu_arch)>>
    /\ UNCHANGED <<gpu_info, gpu_arch, error, resolve_calls, resolve_log,
                   analyzer_vars, monitor_vars, gui_vars, DAEMON_CONFIG,
                   daemon_vars, complete_vars>>

\* show_daemon_settings, dialog accepted: DAEMON_CONFIG.update(settings)
show_daemon_settings(settings) ==
    /\ error = "none"
    /\ DAEMON_CONFIG' =
          [k \in DOMAIN DAEMON_CONFIG |->
              IF k \in DOMAIN settings THEN settings[k] ELSE DAEMON_CONFIG[k]]
    /\ UNCHANGED <<resolver_vars, analyzer_vars, monitor_vars, gui_vars,
                   error, daemon_vars, complete_vars>>

----------------------------------------------------------------------------
(* Inputs *)

\* family strings that are not catalog keys
OtherFamilies ==
    { <<>>, <<"U", "n", "k", "n", "o", "w", "n">>, <<"N", "V", "4", "4">>, <<"N", "V", "6", "7">>,
      <<"N", "V", "5", "0">>, <<"N", "V", "3", "4">>, <<"G", "8", "0">>, <<"G", "9">>,
      <<"G", "7", "0">>, <<"G", "T", "2", "1">>, <<"G", "T", "1">>, <<"N", "V", "C", "1">>,
      <<"G", "F", "1", "1", "7">>, <<"N", "V", "E", "4">>, <<"G", "K", "2", "0">>, <<"G", "M", "2", "0">>,
      <<"G", "P", "1", "0", "8">>, <<"G", "V", "1", "0">>, <<"T", "U", "1">>, <<"G", "A", "1", "0">>,
      <<"A", "D", "1", "0">>, <<"G", "B">>, <<"G", "B", "2">>, <<"G", "B", "2", "0">>,
      <<"G", "B", "2", "0", "5">>, <<"G", "B", "1", "2", "0">>, <<"G", "B", "1", "0">>, <<"G", "H">>,
      <<"X", "Y", "Z">>, <<"g", "b", "2", "0", "3">> }

Families == (DOMAIN CHIP_DATABASE) \cup OtherFamilies

\* device-ID strings: absent, the placeholder, malformed, lower case, the
\* G98 exceptions and the boundaries of every range
ChipIds ==
    { <<>>, <<"U", "n", "k", "n", "o", "w", "n">>, <<"Z", "Z", "Z", "Z">>, <<"1", "2", "G", "4">>, <<"0", "6", "e", "0">>,
      <<"0", "6", "E", "0">>, <<"0", "6", "E", "5">>, <<"0", "6", "E", "9">>, <<"0", "6", "D", "F">>, <<"0", "6", "E", "A">>,
      <<"0", "0", "0", "0">>, <<"0", "0", "3", "F">>, <<"0", "0", "4", "0">>, <<"0", "0", "8", "F">>, <<"0", "0", "9", "0">>,
      <<"0", "1", "F", "F">>, <<"0", "2", "0", "0">>, <<"0", "5", "F", "F">>, <<"0", "6", "0", "0">>, <<"0", "D", "F", "F">>,
      <<"0", "E", "0", "0">>, <<"1", "1", "7", "F">>, <<"1", "1", "8", "0">>, <<"1", "3", "F", "F">>, <<"1", "4", "0", "0">>,
      <<"1", "B", "F", "F">>, <<"1", "C", "0", "0">>, <<"1", "D", "F", "F">>, <<"1", "E", "0", "0">>, <<"2", "1", "F", "F">>,
      <<"2", "2", "0", "0">>, <<"2", "5", "F", "F">>, <<"2", "6", "0", "0">>, <<"2", "7", "F", "F">>, <<"2", "8", "0", "0">>,
      <<"2", "9", "F", "F">>, <<"2", "A", "0", "0">>, <<"2", "B", "F", "F">>, <<"2", "C", "0", "0">>, <<"F", "F", "F", "F">>,
      <<"0", "6", "E", "1">>, <<"0", "6", "E", "2">>, <<"0", "6", "E", "3">>, <<"0", "6", "E", "4">>, <<"0", "6", "E", "6">>, <<"0", "6", "E", "7">>, <<"0", "6", "E", "8">> }

\* the identities of the interleaved session
SessionFamilies ==
    { Str_Unknown, <<"G", "K", "1", "0", "4">> }

SessionChipIds ==
    { Str_Unknown, <<"0", "6", "E", "0">> }

Timestamps == 0..2

Temperatures == {600, 650, 651}

\* the active-process dictionaries passed to log_temp_change
ProcessMaps ==
    { <<>>,
      (1 :> [name |-> "mpv"]),
      (1 :> [name |-> "mpv"]) @@ (2 :> [name |-> "glxgears"]) }

SessionTimestamps == 0..1

\* samples of the process links: a rise of 5.1 degrees, and process 1 seen
\* alone and later, under another name, together with process 2
ProcessTemperatures == {600, 651}

ProcessChoices ==
    { <<>>,
      (1 :> [name |-> "mpv"]),
      (1 :> [name |-> "vlc"]) @@ (2 :> [name |-> "glxgears"]) }

\* the digits of a device ID as detect_gpu stores it: four hexadecimal
\* digits in upper case
UpperHexDigits ==
    {"0", "1", "2", "3", "4", "5", "6", "7", "8", "9",
     "A", "B", "C", "D", "E", "F"}

\* every 16-bit device ID
DeviceIds == [1..4 -> UpperHexDigits]

\* outcomes of the `sensors` run of get_cooling_mode: it raises, it shows no
\* fan line, or it shows a fan at 0 or at 1500 RPM
SensorOutcomes ==
    { [ok |-> FALSE, fan |-> <<>>], [ok |-> TRUE, fan |-> <<>>],
      [ok |-> TRUE, fan |-> <<0>>], [ok |-> TRUE, fan |-> <<1500>>] }

\* the samples (0, 60.0), (1, 61.0), (2, 90.0) and their permutations, and
\* 70.0 degrees for the rates of 9 and 10 degrees per second
CauseTimestamps == 0..2

CauseTemperatures == {600, 610, 700, 900}

\* results of get_gpu_temperature around the 70 degree test of
\* get_cooling_mode: None, 70.0 and 70.1 degrees
CoolingReadings == {<<>>, <<700>>, <<701>>}

\* settings the dialog returns: every cooling mode, and a warning threshold
\* of 70 or 85 degrees
CoolingSettingsChoices ==
    [temp_threshold     : {70, 85},
     critical_threshold : {95},
     check_interval     : {5},
     cooling_mode       : {"auto", "passive", "active"},
     auto_kill          : {FALSE},
     notify_video_accel : {TRUE}]

\* readings of the status labels: 80.0, 85.0, 90.0 and 95.0 degrees
StatusReadings == {<<800>>, <<850>>, <<900>>, <<950>>}

\* settings the dialog returns: a warning threshold of 85 or 90 degrees and
\* a critical threshold of 95 or 100 degrees
StatusSettingsChoices ==
    [temp_threshold     : {85, 90},
     critical_threshold : {95, 100},
     check_interval     : {5},
     cooling_mode       : {"auto"},
     auto_kill          : {FALSE},
     notify_video_accel : {TRUE}]

\* readings of the trend display: 40.0 and 48.0 degrees
TrendTemperatures == {400, 480}

\* readings of the daemon: 70.0 degrees, below the warning threshold, and
\* 90.0 degrees, between the warning and the critical threshold
DaemonTemperatures == {700, 900}

\* samples whose temperature may be a non-finite float
NonFiniteTemperatures == {600, NaN, PosInf, NegInf}

SessionTemperatures == {600, 651}

SessionProcessMaps == { <<>> }

MonitorTemperatures == {600, 651}

\* what the settings dialog can return (DaemonSettingsDialog.get_settings)
SettingsChoices ==
    [temp_threshold     : {85},
     critical_threshold : {95},
     check_interval     : {5},
     cooling_mode       : {"auto", "passive", "active"},
     auto_kill          : {FALSE},
     notify_video_accel : {TRUE}]

\* xprintidle not installed and no input device
NoProbe == [xprintidle |-> <<>>, devices |-> <<>>]

\* what happens to the three processes the daemon may signal
NoOutcomes == <<"gone", "gone", "gone">>

\* no reading, and readings between and above the thresholds 85 and 95
KillReadings == {<<>>, <<900>>, <<960>>}

\* the processes get_gpu_processes lists, each with the CPU share ps prints
\* for it: shares at and just above 50%, more than three dangerous
\* processes and one ps fails for, and a process listed for two devices
KillProcessLists ==
    { <<>>,
      << [pid |-> 1, cpu |-> <<900>>], [pid |-> 2, cpu |-> <<500>>],
         [pid |-> 3, cpu |-> <<501>>] >>,
      << [pid |-> 1, cpu |-> <<600>>], [pid |-> 2, cpu |-> <<900>>],
         [pid |-> 3, cpu |-> <<700>>], [pid |-> 4, cpu |-> <<800>>],
         [pid |-> 5, cpu |-> <<>>] >>,
      << [pid |-> 1, cpu |-> <<900>>], [pid |-> 1, cpu |-> <<900>>],
         [pid |-> 2, cpu |-> <<800>>], [pid |-> 3, cpu |-> <<700>>] >> }

\* xprintidle failing, reporting 1 second and 60 seconds of idle time, and
\* exiting with an error while the input devices were last modified at the
\* times given
Probes ==
    { NoProbe,
      [xprintidle |-> <<[returncode |-> 0, idle |-> 1000]>>,
       devices |-> <<>>],
      [xprintidle |-> <<[returncode |-> 0, idle |-> 60000]>>,
       devices |-> <<>>],
      [xprintidle |-> <<[returncode |-> 1, idle |-> 0]>>, devices |-> <<>>],
      [xprintidle |-> <<[returncode |-> 1, idle |-> 0]>>, devices |-> <<1>>],
      [xprintidle |-> <<[returncode |-> 1, idle |-> 0]>>,
       devices |-> <<0, 2>>] }

KillOutcomes ==
    { NoOutcomes,
      <<"exits", "exits", "exits">>,
      <<"survives", "survives", "survives">>,
      <<"survives", "exits", "gone">>,
      <<"exits", "gone", "survives">> }

\* the players psutil.process_iter lists, with the video libraries lsof
\* lists for each
VideoScans ==
    { <<>>,
      << [pid |-> 1, libva |-> FALSE, libvdpau |-> TRUE] >>,
      << [pid |-> 1, libva |-> TRUE, libvdpau |-> TRUE] >>,
      << [pid |-> 1, libva |-> FALSE, libvdpau |-> FALSE],
         [pid |-> 2, libva |-> TRUE, libvdpau |-> FALSE] >>,
      << [pid |-> 1, libva |-> FALSE, libvdpau |-> TRUE],
         [pid |-> 2, libva |-> TRUE, libvdpau |-> FALSE] >> }

\* the process IDs of the rows of the process table, one row per process
\* and device
WindowRows == {<<>>, <<1>>, <<2>>, <<1, 1, 2>>}

ShutdownReadings == {<<>>, <<700>>, <<900>>}

----------------------------------------------------------------------------
(* Initial states *)

\* DAEMON_CONFIG as the module defines it (the keys the dialog can change)
DefaultConfig ==
    [temp_threshold     |-> 85,
     critical_threshold |-> 95,
     check_interval     |-> 5,
     cooling_mode       |-> "auto",
     user_activity_timeout |-> 60,
     auto_kill          |-> FALSE,
     notify_video_accel |-> TRUE]

\* the state after construction, for the identity (family, chip_id) and the
\* settings load_config leaves in DAEMON_CONFIG
InitState(family, chip_id, config) ==
    /\ gpu_info = [family |-> family, chip_id |-> chip_id]
    /\ gpu_arch = "unset"
    /\ arch_info = <<>>
    /\ error = "none"
    /\ resolve_calls = 0
    /\ resolve_log = {}
    /\ temp_history = <<>>
    /\ process_temp_map = <<>>
    /\ anomaly_events = <<>>
    /\ inserted = <<>>
    /\ returned = <<>>
    /\ active_processes = <<>>
    /\ monitor_temp_history = <<>>
    /\ monitor_inserted = <<>>
    /\ DAEMON_CONFIG = config
    /\ gui_temp_history = <<>>
    /\ current_cooling_mode = DefaultConfig.cooling_mode
    /\ temp_status = "Status: OK"
    /\ cooling_mode_label = ""
    /\ anomaly_table = <<>>
    /\ cooling_text = <<>>
    /\ polls = 0
    /\ refreshes = 0
    /\ sensors_read = [ok |-> TRUE, fan |-> <<>>]
    /\ temp_read = <<>>
    /\ daemon_temp_history = <<>>
    /\ trend_call = <<>>
    /\ daemon_readings = 0
    /\ complete_temp_history = <<>>
    /\ complete_temp_status = "Status: OK"
    /\ complete_temp_read = <<>>
    /\ complete_readings = 0
    /\ running = FALSE
    /\ daemon_pc = "constructed"
    /\ delivered = FALSE
    /\ last_user_activity = 0
    /\ kill_cycle = <<>>
    /\ process_history = <<>>
    /\ video_log = <<>>
    /\ video_accel_processes = {}
    /\ video_notifications = <<>>

\* the state after construction with the settings of the source
InitWith(family, chip_id) == InitState(family, chip_id, DefaultConfig)

Init ==
    \E family \in SessionFamilies, chip_id \in SessionChipIds :
        InitWith(family, chip_id)

InitResolver ==
    \E family \in Families, chip_id \in ChipIds :
        InitWith(family, chip_id)

InitAnalyzer == InitWith(Str_Unknown, Str_Unknown)

\* the settings the daemon may load: the critical threshold above and below
\* the warning threshold, auto_kill off and on
KillConfigs ==
    { [k \in DOMAIN DefaultConfig |->
          IF k = "temp_threshold" THEN temp_threshold
          ELSE IF k = "auto_kill" THEN auto_kill
          ELSE DefaultConfig[k]] :
      temp_threshold \in {85, 99}, auto_kill \in BOOLEAN }

\* notify_video_accel on and off
VideoConfigs ==
    { [k \in DOMAIN DefaultConfig |->
          IF k = "notify_video_accel" THEN notify ELSE DefaultConfig[k]] :
      notify \in BOOLEAN }

\* the daemon constructed with the settings of its configuration file
InitKill ==
    \E config \in KillConfigs : InitState(Str_Unknown, Str_Unknown, config)

InitVideo ==
    \E config \in VideoConfigs : InitState(Str_Unknown, Str_Unknown, config)

\* a card whose family was not found in dmesg, with any device ID
InitDeviceIds ==
    \E chip_id \in DeviceIds : InitWith(Str_Unknown, chip_id)

----------------------------------------------------------------------------
(* Specifications *)

\* one poll of the analyzer in the interleaved session
SessionSample ==
    \E timestamp \in SessionTimestamps, temp \in SessionTemperatures,
       processes \in SessionProcessMaps :
        log_temp_change(timestamp, temp, processes)

MonitorReading ==
    \E temp \in MonitorTemperatures : update_temperature(temp)

SettingsAccepted ==
    \E settings \in SettingsChoices : show_daemon_settings(settings)

\* one call of log_temp_change with any timestamp, temperature and processes
RecordSample ==
    \E timestamp \in Timestamps, temp \in Temperatures,
       processes \in ProcessMaps :
        log_temp_change(timestamp, temp, processes)

\* one call of log_temp_change whose temperature may be non-finite
NonFiniteSample ==
    \E timestamp \in Timestamps, temp \in NonFiniteTemperatures :
        log_temp_change(timestamp, temp, <<>>)

\* the interleaved session: resolver calls, samples and settings changes
Next ==
    \/ DetectArchitecture
    \/ SessionSample
    \/ SettingsAccepted

Spec == Init /\ [][Next]_vars

\* the two bounded histories
NextHistory ==
    \/ SessionSample
    \/ MonitorReading

SpecHistory == InitAnalyzer /\ [][NextHistory]_vars

\* the resolver over every identity
NextResolver ==
    \/ DetectArchitecture
    \/ GetArchInfo

SpecResolver == InitResolver /\ [][NextResolver]_vars

\* the analyzer over every sample
NextAnalyzer == RecordSample

SpecAnalyzer == InitAnalyzer /\ [][NextAnalyzer]_vars

\* one sample of the anomaly table scenario
CauseSample ==
    \E timestamp \in CauseTimestamps, temp \in CauseTemperatures :
        log_temp_change(timestamp, temp, <<>>)

\* the refresh button of the analysis tab
RefreshAnalysis ==
    \E sensors \in {[ok |-> TRUE, fan |-> <<>>]} :
        update_temperature_analysis_display(sensors)

\* the analyzer and the anomaly table that shows its events
NextCause ==
    \/ CauseSample
    \/ RefreshAnalysis

SpecCause == InitAnalyzer /\ [][NextCause]_vars

\* one timer tick of the monitor window with a temperature reading
TrendReading ==
    /\ polls < MaxTrendReadings
    /\ \E temp \in TrendTemperatures :
          update_data(<<temp>>, [ok |-> TRUE, fan |-> <<>>])

\* the temperature history of the monitor window and its analysis text
NextTrend ==
    \/ TrendReading
    \/ RefreshAnalysis

SpecTrend == InitAnalyzer /\ [][NextTrend]_vars

\* one cycle of the daemon; a failed reading leaves every variable as it is
DaemonCycle ==
    /\ daemon_readings < MaxDaemonReadings
    /\ \E reading \in {<<temp>> : temp \in DaemonTemperatures} :
          run_cycle(reading, <<>>, NoProbe, NoOutcomes, <<>>)

\* run() called
RunStart == run_start

\* the daemon's temperature history and its trend
NextDaemon ==
    \/ RunStart
    \/ DaemonCycle

SpecDaemon == InitAnalyzer /\ [][NextDaemon]_vars

\* one timer tick of the monitor window
CoolingPoll ==
    /\ polls < MaxPolls
    /\ \E reading \in CoolingReadings, sensors \in SensorOutcomes :
          update_data(reading, sensors)

\* the refresh button of the analysis tab, with any outcome of `sensors`
CoolingRefresh ==
    \E sensors \in SensorOutcomes :
        update_temperature_analysis_display(sensors)

\* the settings dialog accepted
CoolingSettingsAccepted ==
    \E settings \in CoolingSettingsChoices : show_daemon_settings(settings)

\* the monitor window: timer ticks, refreshes and settings changes
NextCooling ==
    \/ CoolingPoll
    \/ CoolingRefresh
    \/ CoolingSettingsAccepted

SpecCooling == InitAnalyzer /\ [][NextCooling]_vars

\* one timer tick of the monitor window of nouveau_gpu_monitor.py
StatusPoll ==
    /\ polls < MaxPolls
    /\ \E reading \in StatusReadings :
          update_data(reading, [ok |-> TRUE, fan |-> <<>>])

\* one timer tick of the monitor window of nouveau_monitor_complete.py
CompleteReading ==
    /\ complete_readings < MaxPolls
    /\ \E reading \in StatusReadings : complete_update_temperature(reading)

\* the settings dialog accepted with new thresholds
StatusSettingsAccepted ==
    \E settings \in StatusSettingsChoices : show_daemon_settings(settings)

\* the status labels of the two monitor windows and the settings dialog
NextStatus ==
    \/ StatusPoll
    \/ CompleteReading
    \/ StatusSettingsAccepted

SpecStatus == InitAnalyzer /\ [][NextStatus]_vars

\* the device-ID tier over every 16-bit device ID
NextDeviceIds == DetectArchitecture

SpecDeviceIds == InitDeviceIds /\ [][NextDeviceIds]_vars

\* one sample with its active processes
ProcessSample ==
    \E timestamp \in Timestamps, temp \in ProcessTemperatures,
       processes \in ProcessChoices :
        log_temp_change(timestamp, temp, processes)

\* the analyzer, its process links and the table that shows its events
NextProcesses ==
    \/ ProcessSample
    \/ RefreshAnalysis

SpecProcesses == InitAnalyzer /\ [][NextProcesses]_vars

\* one cycle of the daemon at a temperature around the thresholds, with GPU
\* processes to signal
KillCycle ==
    /\ daemon_readings < MaxCycles
    /\ \E reading \in KillReadings, processes \in KillProcessLists,
          probe \in Probes, outcomes \in KillOutcomes :
          run_cycle(reading, processes, probe, outcomes, <<>>)

\* the daemon and the processes it signals
NextKill ==
    \/ RunStart
    \/ KillCycle

SpecKill == InitKill /\ [][NextKill]_vars

\* one cycle of the daemon with no temperature, with processes that play
\* video
VideoCycle ==
    /\ daemon_readings < MaxCycles
    /\ \E scan \in VideoScans :
          run_cycle(<<>>, <<>>, NoProbe, NoOutcomes, scan)

\* one refresh of the process table of the monitor window
WindowUpdate ==
    \E rows \in WindowRows, scan \in VideoScans :
        update_processes(rows, scan)

\* the daemon and the monitor window, each with its record of the processes
\* that use video acceleration
NextVideo ==
    \/ RunStart
    \/ VideoCycle
    \/ WindowUpdate

SpecVideo == InitVideo /\ [][NextVideo]_vars

\* SIGTERM or SIGINT delivered to the daemon
SignalDelivered == signal_handler

\* one cycle of the daemon while signals may arrive
ShutdownCycle ==
    /\ daemon_readings < MaxCycles
    /\ \E reading \in ShutdownReadings, scan \in VideoScans :
          run_cycle(reading, <<>>, NoProbe, NoOutcomes, scan)

\* run() left
RunReturn == run_return

\* the daemon from its construction to the return of run()
NextShutdown ==
    \/ RunStart
    \/ SignalDelivered
    \/ ShutdownCycle
    \/ RunReturn

\* run() is called, a cycle that can start starts and ends, and the loop
\* test that can be made is made
SpecShutdown ==
    /\ InitAnalyzer
    /\ [][NextShutdown]_vars
    /\ WF_vars(RunStart)
    /\ WF_vars(ShutdownCycle)
    /\ WF_vars(RunReturn)

\* the analyzer fed with finite and non-finite temperatures
NextNonFinite == NonFiniteSample

SpecNonFinite == InitAnalyzer /\ [][NextNonFinite]_vars

----------------------------------------------------------------------------
(* Properties of the resolver, checked under SpecResolver *)

resolved == resolve_calls > 0

\* C1: for every family and device-ID string, detect_architecture returns
\* without raising one tag of the closed set, and the tag is Unknown when the
\* family matches no catalog key and no prefix and the device ID is not
\* valid hexadecimal.
C1_ResolveTotal ==
    resolved =>
        /\ error = "none"
        /\ gpu_arch \in ArchTags
        /\ ( /\ catalog_arch(gpu_info.family) = "none"
             /\ prefix_arch(gpu_info.family) = "none"
             /\ ~int16_accepts(gpu_info.chip_id)
             => gpu_arch = "Unknown" )

\* C2: a family that is a catalog key resolves to the catalog entry's
\* architecture whatever the device ID, and a family that only matches a
\* prefix rule resolves to that rule's tag whatever the device ID.
C2_Precedence ==
    resolved =>
        /\ ( gpu_info.family \in DOMAIN CHIP_DATABASE
             => /\ error = "none"
                /\ gpu_arch = CHIP_DATABASE[gpu_info.family].arch )
        /\ ( /\ gpu_info.family \notin DOMAIN CHIP_DATABASE
             /\ prefix_arch(gpu_info.family) # "none"
             => /\ error = "none"
                /\ gpu_arch = prefix_arch(gpu_info.family) )

\* a catalog family resolved against a device ID of another architecture
C2_Witness ==
    /\ resolved
    /\ gpu_info.family \in DOMAIN CHIP_DATABASE
    /\ ~chip_num_raises(gpu_info.chip_id)
    /\ chip_id_arch(gpu_info.chip_id)
          \notin {"Unknown", CHIP_DATABASE[gpu_info.family].arch}
    /\ gpu_arch = CHIP_DATABASE[gpu_info.family].arch

NoDeviceId == { <<>>, Str_Unknown }

\* C3: with no device ID, family "GB203" resolves to GB200 and family "GB106"
\* resolves to GB100.
C3_GBDisambiguation ==
    resolved /\ gpu_info.chip_id \in NoDeviceId =>
        /\ ( gpu_info.family = <<"G", "B", "2", "0", "3">>
             => error = "none" /\ gpu_arch = "GB200" )
        /\ ( gpu_info.family = <<"G", "B", "1", "0", "6">>
             => error = "none" /\ gpu_arch = "GB100" )

C3_Witness ==
    /\ resolved
    /\ gpu_info = [family |-> <<"G", "B", "2", "0", "3">>, chip_id |-> <<>>]
    /\ gpu_arch = "GB200"

\* C4: an empty family and the family "Unknown" match no catalog key and no
\* prefix rule, the outcome is the one of the device-ID tier, and with the
\* device ID absent or "Unknown" it is the tag Unknown, without raising.
C4_PlaceholderFamily ==
    resolved /\ gpu_info.family \in {<<>>, Str_Unknown} =>
        /\ catalog_arch(gpu_info.family) = "none"
        /\ prefix_arch(gpu_info.family) = "none"
        /\ IF chip_id_arch(gpu_info.chip_id) = "ValueError"
           THEN error = "ValueError"
           ELSE error = "none" /\ gpu_arch = chip_id_arch(gpu_info.chip_id)
        /\ ( gpu_info.chip_id \in NoDeviceId
             => error = "none" /\ gpu_arch = "Unknown" )

C4_Witness ==
    /\ resolved
    /\ gpu_info = [family |-> Str_Unknown, chip_id |-> Str_Unknown]
    /\ error = "none"
    /\ gpu_arch = "Unknown"

ProfileFields == {"name", "series", "opengl", "year", "va_api"}

\* C6: get_arch_info returns the table entry of a tag that is in
\* GPU_ARCHITECTURES and, for any other tag, Unknown included, the profile
\* whose five fields are "Unknown"; every tag detect_architecture returns,
\* except Unknown, is in the table.
C6_ProfileTotal ==
    /\ ( gpu_arch # "unset"
         => gpu_arch = "Unknown" \/ gpu_arch \in DOMAIN GPU_ARCHITECTURES )
    /\ ( arch_info # <<>> =>
           /\ DOMAIN arch_info[1] = ProfileFields
           /\ IF gpu_arch \in DOMAIN GPU_ARCHITECTURES
              THEN arch_info[1] = GPU_ARCHITECTURES[gpu_arch]
              ELSE \A field \in ProfileFields :
                      arch_info[1][field] = "Unknown" )
    /\ \A tag \in {"Unknown", "NV30", "unset"} :
          \A field \in ProfileFields : get_arch_info(tag)[field] = "Unknown"

C6_Witness ==
    /\ gpu_arch = "Unknown"
    /\ arch_info # <<>>
    /\ \A field \in ProfileFields : arch_info[1][field] = "Unknown"

----------------------------------------------------------------------------
(* Properties of the interleaved session, checked under Spec *)

----------------------------------------------------------------------------
(* Properties of the bounded histories, checked under SpecHistory *)

\* the last n entries of s, or s when it is shorter
LastN(s, n) ==
    IF Len(s) <= n THEN s ELSE SubSeq(s, Len(s) - n + 1, Len(s))

\* C7: a temperature history never holds more entries than its capacity and,
\* once more samples than that were inserted, it holds exactly the most
\* recently inserted ones, in insertion order.
C7_HistoryBound ==
    /\ Len(temp_history) <= temp_history_maxlen
    /\ temp_history = LastN(inserted, temp_history_maxlen)
    /\ Len(monitor_temp_history) <= max_history
    /\ monitor_temp_history = LastN(monitor_inserted, max_history)

\* both histories have evicted their oldest entry
C7_Witness ==
    /\ Len(inserted) > temp_history_maxlen
    /\ Len(temp_history) = temp_history_maxlen
    /\ temp_history[1] = inserted[Len(inserted) - temp_history_maxlen + 1]
    /\ Len(monitor_inserted) > max_history
    /\ Len(monitor_temp_history) = max_history

----------------------------------------------------------------------------
(* Properties of the analyzer, checked under SpecAnalyzer *)

\* adjacent entries (timestamp, temperature) have non-decreasing timestamps
TimeOrdered(history) ==
    \A i \in 1..(Len(history) - 1) : history[i][1] <= history[i + 1][1]

\* C8, as claimed: the history is time-ordered in every reachable state,
\* whatever timestamps are passed to log_temp_change.
C8_AlwaysTimeOrdered == TimeOrdered(temp_history)

\* C8, amended: the history is time-ordered in every state reached by calls
\* whose timestamps never decreased; the samples are kept in call order.
C8_TimeOrderedWhenCallsAre ==
    TimeOrdered(inserted) => TimeOrdered(temp_history)

\* a full history after calls with increasing timestamps
C8_Witness ==
    /\ Len(inserted) > temp_history_maxlen
    /\ \A i \in 1..(Len(inserted) - 1) : inserted[i][1] < inserted[i + 1][1]
    /\ Len(temp_history) = temp_history_maxlen
    /\ TimeOrdered(temp_history)

\* the step is a call of log_temp_change
SampleRecorded == inserted' # inserted

\* the sample passed to that call
NewSample == inserted'[Len(inserted')]

\* the entry the history ended with before the call
PrevSample == temp_history[Len(temp_history)]

\* C9: log_temp_change appends an anomaly event if and only if the history
\* held a previous sample, the elapsed time to it is positive and the
\* absolute rate of change is strictly above the threshold; it never appends
\* more than one.
C9_AnomalyIff ==
    [][ SampleRecorded =>
          /\ Len(anomaly_events') \in
                {Len(anomaly_events), Len(anomaly_events) + 1}
          /\ ( Len(anomaly_events') = Len(anomaly_events) + 1
               <=> /\ temp_history # <<>>
                   /\ NewSample[1] - PrevSample[1] > 0
                   /\ Abs(NewSample[2] - PrevSample[2])
                        > anomaly_threshold * (NewSample[1] - PrevSample[1]) )
      ]_vars

\* a rise of 5.1 degrees in one second, then a fall of 5.1 degrees in one
\* second: two events
C9_Witness ==
    /\ Len(inserted) = 3
    /\ inserted[2][1] = inserted[1][1] + 1
    /\ inserted[3][1] = inserted[2][1] + 1
    /\ inserted[2][2] - inserted[1][2] = anomaly_threshold + 1
    /\ inserted[3][2] - inserted[2][2] = -(anomaly_threshold + 1)
    /\ Len(anomaly_events) = 2
    /\ anomaly_events[1].rate.num > 0
    /\ anomaly_events[2].rate.num < 0

\* C10: a sample whose timestamp is not later than the previous entry's
\* raises nothing and adds no anomaly event, whatever the temperatures, and
\* is still appended to the history.
C10_ZeroDurationGuard ==
    [][ ( /\ SampleRecorded
          /\ temp_history # <<>>
          /\ NewSample[1] <= PrevSample[1] )
        => /\ error' = "none"
           /\ anomaly_events' = anomaly_events
           /\ temp_history' # <<>>
           /\ temp_history'[Len(temp_history')] = NewSample
      ]_vars

\* a duplicate timestamp and an earlier timestamp, each with a temperature
\* jump above the threshold, and no event
C10_Witness ==
    /\ Len(inserted) = 3
    /\ inserted[2][1] = inserted[1][1]
    /\ inserted[3][1] < inserted[2][1]
    /\ Abs(inserted[2][2] - inserted[1][2]) > anomaly_threshold
    /\ Abs(inserted[3][2] - inserted[2][2]) > anomaly_threshold
    /\ temp_history[Len(temp_history)] = inserted[3]
    /\ anomaly_events = <<>>
    /\ error = "none"


\* C11, as claimed: log_temp_change returns the new anomaly event when the
\* sample triggers an anomaly, and nothing otherwise.
C11_ReturnsEvent ==
    [][ (SampleRecorded /\ error' = "none") =>
          returned' = IF Len(anomaly_events') > Len(anomaly_events)
                      THEN <<anomaly_events'[Len(anomaly_events')]>>
                      ELSE <<>>
      ]_vars


\* C12, as claimed: a sample whose temperature is NaN or an infinity raises
\* nothing and adds no anomaly event, and neither does the sample that
\* follows it.
C12_NonFiniteIgnored ==
    [][ ( /\ SampleRecorded
          /\ \/ NewSample[2] \in NonFinite
             \/ (temp_history # <<>> /\ PrevSample[2] \in NonFinite) )
        => /\ error' = "none"
           /\ anomaly_events' = anomaly_events
      ]_vars


\* C20: for every family that starts with "GB" and is not a catalog key,
\* detect_architecture returns GB200 exactly when the family has a character
\* at index 3 and that character is '2', and GB100 otherwise, whatever the
\* device ID is.
C20_BlackwellPrefix ==
    ( /\ resolved
      /\ startswith(gpu_info.family, <<"G", "B">>)
      /\ gpu_info.family \notin DOMAIN CHIP_DATABASE )
    => /\ error = "none"
       /\ gpu_arch = IF /\ Len(gpu_info.family) >= 4
                        /\ gpu_info.family[4] = "2"
                     THEN "GB200" ELSE "GB100"

\* "GB120" has '2' at index 3 and resolves to GB200 although its device ID
\* is malformed
C20_Witness ==
    /\ resolved
    /\ gpu_info = [family  |-> <<"G", "B", "1", "2", "0">>,
                   chip_id |-> <<"Z", "Z", "Z", "Z">>]
    /\ error = "none"
    /\ gpu_arch = "GB200"


\* the step is a call of update_temperature_analysis_display
AnalysisRefreshed == refreshes' # refreshes

\* C13: every recorded anomaly event is shown with the cause its signed rate
\* maps to: above 10 degrees per second heavy load / thermal throttling,
\* above 5 and at most 10 process start / high activity, and normal
\* fluctuation for every other rate, the negative ones included.
C13_CauseLabelled ==
    [][ AnalysisRefreshed =>
          LET events == Last(anomaly_events, displayed_events)
          IN  /\ Len(anomaly_table') = Len(events)
              /\ \A i \in 1..Len(events) :
                    anomaly_table'[i].cause =
                       IF events[i].rate.num > 100 * events[i].rate.den
                       THEN "Heavy load / Thermal throttling"
                       ELSE IF events[i].rate.num > 50 * events[i].rate.den
                       THEN "Process start / High activity"
                       ELSE "Normal fluctuation"
      ]_vars

\* the samples (0, 60.0), (1, 61.0), (2, 90.0): no event for the second, one
\* event for the third with rate 29.0, shown as heavy load
C13_Witness ==
    /\ inserted = << <<0, 600>>, <<1, 610>>, <<2, 900>> >>
    /\ Len(anomaly_events) = 1
    /\ anomaly_events[1].timestamp = 2
    /\ anomaly_events[1].rate = [num |-> 290, den |-> 1]
    /\ refreshes = 1
    /\ Len(anomaly_table) = 1
    /\ anomaly_table[1].cause = "Heavy load / Thermal throttling"


\* C14, as claimed: with 5 or more readings in the history the trend shown
\* is decided by the 5 most recent ones: rising when every consecutive pair
\* of them is non-decreasing, falling when every pair is non-increasing,
\* stable otherwise.
C14_TrendOfLastFive ==
    [][ (AnalysisRefreshed /\ Len(gui_temp_history) >= 5) =>
          LET recent == Last(gui_temp_history, 5)
          IN  /\ cooling_text' # <<>>
              /\ cooling_text'[1].trend =
                    IF \A i \in 1..4 : recent[i] <= recent[i + 1]
                    THEN "Temperature trending UP"
                    ELSE IF \A i \in 1..4 : recent[i] >= recent[i + 1]
                    THEN "Temperature trending DOWN"
                    ELSE "Temperature stable"
      ]_vars


\* histories of fewer than 5 readings, the empty one included
ShortHistories ==
    UNION { [1..n -> DaemonTemperatures] : n \in 0..4 }

Polled == polls' # polls

\* C16, as claimed: while the configured cooling mode is passive or active,
\* every get_cooling_mode call returns that mode, whatever the fan reading
\* and the temperature history are.
C16_ExplicitMode ==
    [][ DAEMON_CONFIG.cooling_mode \in {"passive", "active"} =>
          /\ (Polled => cooling_mode_label' = DAEMON_CONFIG.cooling_mode)
          /\ (AnalysisRefreshed =>
                 cooling_text'[1].mode = DAEMON_CONFIG.cooling_mode)
      ]_vars

\* the mode the auto rule gives for an outcome of `sensors` and a history
AutoMode(sensors, history) ==
    IF sensors.ok /\ sensors.fan # <<>>
    THEN (IF sensors.fan[1] > 0 THEN "active" ELSE "passive")
    ELSE IF sensors.ok /\ history # <<>>
    THEN (IF history[Len(history)] > 700 THEN "active" ELSE "passive")
    ELSE "passive"

\* C17: while the configured cooling mode is auto, every get_cooling_mode
\* call returns passive or active: with a fan reading, active exactly when
\* the RPM is above 0; with no fan reading and a non-empty history, active
\* exactly when the last temperature is strictly above 70 degrees; passive
\* with no fan reading and an empty history, and when the read fails.
C17_AutoMode ==
    [][ DAEMON_CONFIG.cooling_mode = "auto" =>
          /\ (Polled =>
                 cooling_mode_label' =
                    AutoMode(sensors_read', gui_temp_history'))
          /\ (AnalysisRefreshed =>
                 cooling_text'[1].mode =
                    AutoMode(sensors_read', gui_temp_history'))
      ]_vars

\* auto mode, no fan line, and a reading of 70.1 degrees: active
C17_Witness ==
    /\ DAEMON_CONFIG.cooling_mode = "auto"
    /\ polls > 0
    /\ sensors_read = [ok |-> TRUE, fan |-> <<>>]
    /\ temp_read = <<701>>
    /\ gui_temp_history[Len(gui_temp_history)] = 701
    /\ cooling_mode_label = "active"

\* C18, as claimed: the configuration is read at call time: the
\* get_cooling_mode call and the status update that follow an accepted
\* settings dialog use the cooling mode and the thresholds the dialog set.
C18_ConfigReadAtCallTime ==
    [][ /\ ( Polled =>
               /\ cooling_mode_label' =
                     get_cooling_mode(DAEMON_CONFIG.cooling_mode,
                                      sensors_read', gui_temp_history')
               /\ ( temp_read' # <<>> =>
                       temp_status' =
                          temp_status_text(temp_read'[1], DAEMON_CONFIG) ) )
        /\ ( AnalysisRefreshed =>
               /\ cooling_text'[1].mode =
                     get_cooling_mode(DAEMON_CONFIG.cooling_mode,
                                      sensors_read', gui_temp_history')
               /\ cooling_text'[1].temp_threshold =
                     DAEMON_CONFIG.temp_threshold
               /\ cooling_text'[1].critical_threshold =
                     DAEMON_CONFIG.critical_threshold )
      ]_vars


\* the status of a temperature under the configured thresholds
StatusLevel(temp, config) ==
    IF temp >= 10 * config.critical_threshold THEN "critical"
    ELSE IF temp >= 10 * config.temp_threshold THEN "warning"
    ELSE "ok"

\* the label text of each status in nouveau_gpu_monitor.py
StatusText ==
    [ok       |-> "Status: OK",
     warning  |-> "Status: WARNING",
     critical |-> "Status: CRITICAL"]

\* the label text of each status in nouveau_monitor_complete.py
CompleteStatusText ==
    [ok       |-> "Status: Temperatura OK",
     warning  |-> "Status: Temperatura podwyzszona",
     critical |-> "Status: WYSOKA TEMPERATURA!"]

\* C19, as claimed: the status shown for a reading is critical when the
\* reading is at or above the configured critical threshold, warning when it
\* is at or above the configured warning threshold, and ok otherwise, in
\* both monitor windows; the thresholds are the ones in DAEMON_CONFIG at the
\* time of the reading.
C19_StatusFromThresholds ==
    [][ /\ ( (Polled /\ temp_read' # <<>>) =>
               temp_status' =
                  StatusText[StatusLevel(temp_read'[1], DAEMON_CONFIG)] )
        /\ ( ( /\ complete_readings' # complete_readings
               /\ complete_temp_read' # <<>> ) =>
               complete_temp_status' =
                  CompleteStatusText[StatusLevel(complete_temp_read'[1],
                                                 DAEMON_CONFIG)] )
      ]_vars


\* the family matches no catalog key and no prefix rule
NoFamilyMatch ==
    /\ gpu_info.family \notin DOMAIN CHIP_DATABASE
    /\ \A prefix \in { <<"N", "V", "4">>, <<"N", "V", "6">>, <<"N", "V", "5">>,
                        <<"G", "8">>, <<"G", "9">>, <<"G", "T", "2">>,
                        <<"N", "V", "C">>, <<"G", "F">>, <<"N", "V", "E">>,
                        <<"G", "K">>, <<"G", "M">>, <<"G", "P">>, <<"G", "V">>,
                        <<"T", "U">>, <<"G", "A">>, <<"A", "D">>, <<"G", "B">>,
                        <<"G", "H">> } :
          ~startswith(gpu_info.family, prefix)

\* the device ID is four upper-case hexadecimal digits
IsDeviceId == gpu_info.chip_id \in DeviceIds

\* C21: when the family matches no catalog key and no prefix rule, each of
\* the ten device IDs 0x06E0 (1760) to 0x06E9 (1769) resolves to NV50, and
\* 0x06DF and 0x06EA resolve to NVC0.
C21_G98Exceptions ==
    (resolved /\ NoFamilyMatch /\ IsDeviceId) =>
        LET chip_num == int16(gpu_info.chip_id)
        IN  /\ (1760 <= chip_num /\ chip_num <= 1769
                  => error = "none" /\ gpu_arch = "NV50")
            /\ (chip_num \in {1759, 1770}
                  => error = "none" /\ gpu_arch = "NVC0")

\* the last of the ten exceptions, resolved for a family that matches
\* nothing
C21_Witness ==
    /\ resolved
    /\ gpu_info = [family  |-> <<"X", "Y", "Z">>,
                   chip_id |-> <<"0", "6", "E", "9">>]
    /\ gpu_arch = "NV50"

\* C26, as claimed: for every catalog key the prefix rules alone give the
\* architecture tag of the catalog entry.
C26_PrefixAgreesWithCatalog ==
    (resolved /\ gpu_info.family \in DOMAIN CHIP_DATABASE) =>
        /\ gpu_arch = CHIP_DATABASE[gpu_info.family].arch
        /\ prefix_arch(gpu_info.family) = gpu_arch

\* the bounds of the general ranges: lo <= chip_num < hi
DeviceIdRanges ==
    { [lo |-> 64,    hi |-> 144],   [lo |-> 144,   hi |-> 512],
      [lo |-> 1536,  hi |-> 3584],  [lo |-> 3584,  hi |-> 4480],
      [lo |-> 4480,  hi |-> 5120],  [lo |-> 5120,  hi |-> 7168],
      [lo |-> 7168,  hi |-> 7680],  [lo |-> 7680,  hi |-> 8704],
      [lo |-> 8704,  hi |-> 9728],  [lo |-> 9728,  hi |-> 10240],
      [lo |-> 10240, hi |-> 10752], [lo |-> 10752, hi |-> 11264],
      [lo |-> 11264, hi |-> 65536] }

\* C27: when the family matches no catalog key and no prefix rule, every
\* 16-bit device ID resolves to one tag of the closed set, it lies in at
\* most one of the numeric ranges, the tag is Unknown exactly for the IDs
\* below 0x0040 (64) and the IDs from 0x0200 (512) to below 0x0600 (1536),
\* and every ID at or above 0x2C00 (11264) resolves to GH100.
C27_RangesPartition ==
    (resolved /\ NoFamilyMatch /\ IsDeviceId) =>
        LET chip_num == int16(gpu_info.chip_id)
        IN  /\ error = "none"
            /\ gpu_arch \in ArchTags
            /\ Cardinality({ r \in DeviceIdRanges :
                                r.lo <= chip_num /\ chip_num < r.hi }) <= 1
            /\ ( gpu_arch = "Unknown"
                  <=> \/ chip_num < 64
                      \/ (512 <= chip_num /\ chip_num < 1536) )
            /\ (chip_num >= 11264 => gpu_arch = "GH100")

\* the first ID of the gap between the NV50 and the NVC0 range is Unknown,
\* and so on a second call
C27_Witness ==
    /\ resolve_calls = 2
    /\ gpu_info = [family  |-> Str_Unknown,
                   chip_id |-> <<"0", "2", "0", "0">>]
    /\ gpu_arch = "Unknown"
    /\ error = "none"


\* the last event of the log after the step
NewEvent == anomaly_events'[Len(anomaly_events')]

\* C22: the anomaly log is append-only: a step adds at most one event,
\* after all earlier ones, and changes none of them; the new event's rate is
\* (new temperature - previous temperature) / (new timestamp - previous
\* timestamp) for the entry the history ended with, and its processes are
\* the active processes of that call.
C22_AppendOnlyLog ==
    [][ /\ Len(anomaly_events') \in
              {Len(anomaly_events), Len(anomaly_events) + 1}
        /\ SubSeq(anomaly_events', 1, Len(anomaly_events)) = anomaly_events
        /\ ( Len(anomaly_events') = Len(anomaly_events) + 1 =>
               /\ SampleRecorded
               /\ temp_history # <<>>
               /\ NewEvent.timestamp = NewSample[1]
               /\ NewEvent.rate.den # 0
               /\ NewEvent.rate.num * (NewSample[1] - PrevSample[1]) =
                     (NewSample[2] - PrevSample[2]) * NewEvent.rate.den
               /\ DOMAIN NewEvent.processes = DOMAIN active_processes'
               /\ \A pid \in DOMAIN active_processes' :
                     NewEvent.processes[pid] = active_processes'[pid].name )
      ]_vars

\* two events, the second for a call with two active processes, and the
\* table refreshed
C22_Witness ==
    /\ Len(anomaly_events) = 2
    /\ anomaly_events[1].timestamp < anomaly_events[2].timestamp
    /\ anomaly_events[1].processes = <<>>
    /\ DOMAIN anomaly_events[2].processes = {1, 2}
    /\ anomaly_events[2].rate.num < 0
    /\ refreshes > 0

\* C23: a process link is created by the first sample whose active
\* processes hold the process ID, with that sample's timestamp and
\* temperature and the name given there; later samples change none of the
\* three fields and remove no link.
C23_LinkCreatedOnce ==
    [][ SampleRecorded =>
          /\ DOMAIN process_temp_map' =
                (DOMAIN process_temp_map) \cup (DOMAIN active_processes')
          /\ \A pid \in DOMAIN process_temp_map' :
                IF pid \in DOMAIN process_temp_map
                THEN /\ process_temp_map'[pid].name =
                          process_temp_map[pid].name
                     /\ process_temp_map'[pid].start_time =
                          process_temp_map[pid].start_time
                     /\ process_temp_map'[pid].temp_at_start =
                          process_temp_map[pid].temp_at_start
                ELSE /\ process_temp_map'[pid].name =
                          active_processes'[pid].name
                     /\ process_temp_map'[pid].start_time = NewSample[1]
                     /\ process_temp_map'[pid].temp_at_start = NewSample[2]
      ]_vars

\* process 1 first seen as "mpv" at 60.0 degrees, seen again under another
\* name at 65.1 degrees together with process 2, and absent from the third
\* sample
C23_Witness ==
    /\ Len(inserted) = 3
    /\ inserted[1] = <<0, 600>>
    /\ inserted[2] = <<1, 651>>
    /\ active_processes = <<>>
    /\ DOMAIN process_temp_map = {1, 2}
    /\ process_temp_map[1].name = "mpv"
    /\ process_temp_map[1].start_time = 0
    /\ process_temp_map[1].temp_at_start = 600
    /\ process_temp_map[2].start_time = 1
    /\ process_temp_map[2].temp_at_start = 651

\* C24: every call appends (timestamp, temperature) to the ring of every
\* active process and to no other ring, whether or not the rate is computed
\* and an anomaly is logged; a ring never holds more than its capacity and
\* drops its oldest pair on overflow.
C24_RingPerActiveProcess ==
    [][ SampleRecorded =>
          \A pid \in DOMAIN process_temp_map' :
             LET before == IF pid \in DOMAIN process_temp_map
                           THEN process_temp_map[pid].temp_history
                           ELSE <<>>
                 after  == process_temp_map'[pid].temp_history
             IN  /\ Len(after) <= process_temp_history_maxlen
                 /\ IF pid \in DOMAIN active_processes'
                    THEN after = LastN(Append(before, NewSample),
                                       process_temp_history_maxlen)
                    ELSE after = before
      ]_vars

\* process 1 active in three samples, the second of them an anomaly: its
\* ring is full and has dropped the first pair
C24_Witness ==
    /\ Len(inserted) > process_temp_history_maxlen
    /\ \A i \in 1..(Len(inserted) - 1) : inserted[i][1] < inserted[i + 1][1]
    /\ Len(anomaly_events) > 0
    /\ 1 \in DOMAIN process_temp_map
    /\ process_temp_map[1].start_time = inserted[1][1]
    /\ Len(process_temp_map[1].temp_history) = process_temp_history_maxlen
    /\ process_temp_map[1].temp_history =
          SubSeq(inserted, Len(inserted) - process_temp_history_maxlen + 1,
                 Len(inserted))


\* C25, as claimed: the anomaly log never retains more events than a fixed
\* capacity, here the number of events the table shows, and the table shows
\* the most recent events, at most that many, in the order of detection.
C25_CapacityBounded ==
    [][ /\ Len(anomaly_events') <= displayed_events
        /\ ( AnalysisRefreshed =>
               /\ Len(anomaly_table') <= displayed_events
               /\ \A i \in 1..Len(anomaly_table') :
                     LET event == anomaly_events[Len(anomaly_events)
                                     - Len(anomaly_table') + i]
                     IN  /\ anomaly_table'[i].time =
                               time_cell(event.timestamp)
                         /\ anomaly_table'[i].rate = rate_cell(event.rate) )
      ]_vars


C29_StopsAfterSignal ==
    /\ [][delivered => daemon_readings' = daemon_readings]_vars
    /\ delivered ~> (daemon_pc = "returned" /\ ~running)

\* C30, as claimed: the daemon logs no process twice and the window
\* notifies of no process twice.
C30_OncePerProcess ==
    /\ \A i, j \in 1..Len(video_log) :
          i # j => video_log[i][1] # video_log[j][1]
    /\ \A i, j \in 1..Len(video_notifications) :
          i # j => video_notifications[i] # video_notifications[j]

\* C30, amended: the daemon logs no key (process ID, acceleration type)
\* twice, so a process at most once per type, and the window notifies of no
\* process ID twice; every key logged and every process notified of is
\* recorded, and no step removes a key of process_history or a member of
\* video_accel_processes.
C30_OncePerKey ==
    [][ /\ \A i, j \in 1..Len(video_log') :
              i # j => video_log'[i] # video_log'[j]
        /\ \A i \in 1..Len(video_log') :
              video_log'[i] \in DOMAIN process_history'
        /\ \A i, j \in 1..Len(video_notifications') :
              i # j => video_notifications'[i] # video_notifications'[j]
        /\ \A i \in 1..Len(video_notifications') :
              video_notifications'[i] \in video_accel_processes'
        /\ DOMAIN process_history \subseteq DOMAIN process_history'
        /\ video_accel_processes \subseteq video_accel_processes'
      ]_vars

\* process 1 logged by the daemon for VDPAU in one cycle and for VA-API in
\* the next, after it mapped libva as well, and the window notified of
\* processes 1 and 2
C30_Witness ==
    /\ daemon_readings = 2
    /\ video_log = << <<1, "VDPAU">>, <<1, "VA-API">> >>
    /\ video_notifications = <<1, 2>>
    /\ video_accel_processes = {1, 2}

====
